---- MODULE Spec2Model ----
(***************************************************************************)
(* Merkle Sum Sparse Merkle Tree (mssmt-rs): the regular engine            *)
(* (tree/regular.rs), the compact engine (tree/compact.rs), the in-memory  *)
(* store (db/memory.rs), the node algebra (node/*.rs) and proof            *)
(* verification (proof.rs, tree/mod.rs).                                   *)
(*                                                                         *)
(* Both engines are driven in lockstep by the same public operations, each *)
(* on its own store.                                                       *)
(***************************************************************************)
EXTENDS Integers, Sequences, FiniteSets, TLC

(***************************************************************************)
(* Sizes.  HASH_SIZE is the const generic of every type of the crate; the  *)
(* model instantiates it at one byte, so that the tree has 8 levels.  Sum  *)
(* is u64 in the source; the model keeps the arithmetic (checked_add in    *)
(* insert, unchecked + in Branch::new) at a width of SumBits bits.         *)
(***************************************************************************)
HASH_SIZE == 1

SumBits == 3

MaxOps == 4

\* store errors are injected into the first MaxFailOps operations of a run
MaxFailOps == 2

RECURSIVE Pow2(_)
Pow2(n) == IF n = 0 THEN 1 ELSE 2 * Pow2(n - 1)

SumModulus == Pow2(SumBits)

SumMax == SumModulus - 1

\* MSSMT::max_levels / CompactMSSMT::max_levels
max_levels == HASH_SIZE * 8

(***************************************************************************)
(* Inputs of the public operations.  Keys 0 and 1 differ only in the bit   *)
(* consumed at level 0, keys 0 and 128 only in the bit consumed at the     *)
(* last level.                                                             *)
(***************************************************************************)
KeySeq == <<<<0>>, <<1>>, <<128>>>>

Keys == {KeySeq[i] : i \in 1..Len(KeySeq)}

Values == {<<>>, <<1>>}

Sums == {1, SumMax}

(***************************************************************************)
(* Hasher::hash.  The hash primitive is an external collaborator that is   *)
(* required to be collision resistant: it is modelled as the ideal,        *)
(* injective hash, whose digest is the hashed data itself.  The data is    *)
(* kept as the tuple of the concatenated parts.                            *)
(***************************************************************************)
Hasher_hash(data) == data

(***************************************************************************)
(* Nodes.  Option<T> is a sequence of length 0 (None) or 1 (Some).         *)
(***************************************************************************)
\* EmptyLeaf::new: hash of eight zero bytes = empty value followed by sum 0
EmptyLeaf_new ==
    [kind |-> "Leaf", value |-> <<>>, sum |-> 0, hash |-> Hasher_hash(<<<<>>, 0>>)]

\* NonEmptyLeaf::new
NonEmptyLeaf_new(value, sum) ==
    [kind |-> "Leaf", value |-> value, sum |-> sum, hash |-> Hasher_hash(<<value, sum>>)]

\* Leaf::new
Leaf_new(value, sum) ==
    IF value = <<>> THEN EmptyLeaf_new ELSE NonEmptyLeaf_new(value, sum)

\* Node::sum
Node_sum(node) == IF node.kind = "Compact" THEN node.leaf.sum ELSE node.sum

\* the unchecked addition of Branch::new overflows
AddOverflows(left, right) == Node_sum(left) + Node_sum(right) > SumMax

\* Branch::new / Branch::new_with_arc_children (the sum as a build without
\* overflow checks computes it)
Branch_new(left, right) ==
    LET sum == (Node_sum(left) + Node_sum(right)) % SumModulus
    IN  [kind |-> "Branch", left |-> left, right |-> right, sum |-> sum,
         hash |-> Hasher_hash(<<left.hash, right.hash, sum>>)]

\* bit_index counting the bits of a byte from the most significant one
bit_index_msb0(index, key) == (key[(index \div 8) + 1] \div Pow2(7 - (index % 8))) % 2

\* bit_index counting the bits of a byte from its second bit, cyclically
bit_index_from_bit1(index, key) == (key[(index \div 8) + 1] \div Pow2((index + 1) % 8)) % 2

\* bit_index
bit_index(index, key) == (key[(index \div 8) + 1] \div Pow2(index % 8)) % 2

(***************************************************************************)
(* EmptyTree::build_tree: entry `level` is the root of the empty subtree   *)
(* at that level (level 0 = root, level max_levels = leaf).                *)
(***************************************************************************)
RECURSIVE build_tree(_)
build_tree(i) ==
    IF i = 0 THEN <<EmptyLeaf_new>>
    ELSE LET t == build_tree(i - 1) IN Append(t, Branch_new(t[i], t[i]))

empty_tree_rev == build_tree(max_levels)

empty_tree == [level \in 0..max_levels |-> empty_tree_rev[max_levels - level + 1]]

(***************************************************************************)
(* MemoryDb                                                                *)
(***************************************************************************)
MapPut(m, k, v) == [h \in (DOMAIN m) \cup {k} |-> IF h = k THEN v ELSE m[h]]

MapRemove(m, k) == [h \in (DOMAIN m) \ {k} |-> m[h]]

\* MemoryDb::new
MemoryDb_new ==
    [branches |-> <<>>, leaves |-> <<>>, compact_leaves |-> <<>>, root |-> <<>>]

\* the closure get_node of MemoryDb::get_children
get_node(db, height, key) ==
    IF key = empty_tree[height].hash THEN empty_tree[height]
    ELSE IF key \in DOMAIN db.branches THEN db.branches[key]
    ELSE IF key \in DOMAIN db.leaves THEN db.leaves[key]
    ELSE IF key \in DOMAIN db.compact_leaves THEN db.compact_leaves[key]
    ELSE empty_tree[height]

\* MemoryDb::get_children.  empty_tree is an array of max_levels + 1 nodes:
\* resolving the children of a branch found at height max_levels indexes it
\* out of bounds, which panics.
get_children(db, height, key) ==
    LET node == get_node(db, height, key) IN
    IF key # empty_tree[height].hash /\ node.hash = empty_tree[height].hash
    THEN [ok |-> FALSE, err |-> "NodeNotFound",
          left |-> EmptyLeaf_new, right |-> EmptyLeaf_new]
    ELSE IF node.kind = "Branch"
    THEN IF height + 1 > max_levels
         THEN [ok |-> FALSE, err |-> "Panic",
               left |-> EmptyLeaf_new, right |-> EmptyLeaf_new]
         ELSE [ok |-> TRUE, err |-> "",
               left |-> get_node(db, height + 1, node.left.hash),
               right |-> get_node(db, height + 1, node.right.hash)]
    ELSE [ok |-> FALSE, err |-> "ExpectedBranch",
          left |-> EmptyLeaf_new, right |-> EmptyLeaf_new]

(***************************************************************************)
(* A store write issued by an engine, and its effect on MemoryDb.          *)
(***************************************************************************)
Write(op, node) == [op |-> op, node |-> node]

ApplyWrite(db, w) ==
    CASE w.op = "insert_branch" ->
           [db EXCEPT !.branches = MapPut(@, w.node.hash, w.node)]
      [] w.op = "insert_leaf" ->
           [db EXCEPT !.leaves = MapPut(@, w.node.hash, w.node)]
      [] w.op = "insert_compact_leaf" ->
           [db EXCEPT !.compact_leaves = MapPut(@, w.node.hash, w.node)]
      [] w.op = "delete_branch" ->
           [db EXCEPT !.branches = MapRemove(@, w.node.hash)]
      [] w.op = "delete_leaf" ->
           [db EXCEPT !.leaves = MapRemove(@, w.node.hash)]
      [] w.op = "delete_compact_leaf" ->
           [db EXCEPT !.compact_leaves = MapRemove(@, w.node.hash)]
      [] w.op = "update_root" ->
           [db EXCEPT !.root = <<w.node>>]

\* the first n writes of ws, applied in order
RECURSIVE ApplyWrites(_, _, _)
ApplyWrites(db, ws, n) ==
    IF n = 0 THEN db ELSE ApplyWrite(ApplyWrites(db, ws, n - 1), ws[n])

(***************************************************************************)
(* walk_up (tree/mod.rs): from the leaf to the root; siblings[1] is the    *)
(* sibling of the leaf.  parents lists the parent built at each height, in *)
(* the order the callback sees them (height max_levels-1 first); overflow  *)
(* tells that one of the additions of Branch::new overflowed.              *)
(***************************************************************************)
RECURSIVE walk_up_from(_, _, _, _, _, _)
walk_up_from(key, siblings, i, current, parents, overflow) ==
    IF i < 0 THEN [root |-> current, parents |-> parents, overflow |-> overflow]
    ELSE LET sibling == siblings[max_levels - 1 - i + 1]
             parent == IF bit_index(i, key) = 0
                       THEN Branch_new(current, sibling)
                       ELSE Branch_new(sibling, current)
         IN  walk_up_from(key, siblings, i - 1, parent, Append(parents, parent),
                          overflow \/ AddOverflows(current, sibling))

walk_up(key, start, siblings) ==
    walk_up_from(key, siblings, max_levels - 1, start, <<>>, FALSE)

Reverse(s) == [i \in 1..Len(s) |-> s[Len(s) - i + 1]]

(***************************************************************************)
(* Regular engine (tree/regular.rs)                                        *)
(***************************************************************************)
\* root() falling back to the empty subtree one level below the root
root_below(db) == IF db.root = <<>> THEN empty_tree[1] ELSE db.root[1]

\* MSSMT::root
MSSMT_root(db) == IF db.root = <<>> THEN empty_tree[0] ELSE db.root[1]

\* MSSMT::walk_down: siblings and parents in the order the callback sees
\* them (level 0 first)
RECURSIVE MSSMT_walk_down_from(_, _, _, _, _, _)
MSSMT_walk_down_from(db, key, i, current, parents, siblings) ==
    IF i = max_levels
    THEN IF current.kind = "Leaf"
         THEN [ok |-> TRUE, err |-> "", leaf |-> current,
               parents |-> parents, siblings |-> siblings]
         ELSE [ok |-> FALSE, err |-> "ExpectedLeaf", leaf |-> EmptyLeaf_new,
               parents |-> <<>>, siblings |-> <<>>]
    ELSE LET ch == get_children(db, i, current.hash) IN
         IF ~ch.ok
         THEN [ok |-> FALSE, err |-> ch.err, leaf |-> EmptyLeaf_new,
               parents |-> <<>>, siblings |-> <<>>]
         ELSE LET next == IF bit_index(i, key) = 0 THEN ch.left ELSE ch.right
                  sibling == IF bit_index(i, key) = 0 THEN ch.right ELSE ch.left
              IN  MSSMT_walk_down_from(db, key, i + 1, next,
                                       Append(parents, current.hash),
                                       Append(siblings, sibling))

MSSMT_walk_down(db, key) ==
    MSSMT_walk_down_from(db, key, 0, MSSMT_root(db), <<>>, <<>>)

\* the callback of walk_up in MSSMT::insert: the branches to delete
RECURSIVE branches_delete(_, _)
branches_delete(prev_parents, n) ==
    IF n = 0 THEN <<>>
    ELSE LET height == max_levels - n
             prev_parent == prev_parents[max_levels - height - 1 + 1]
             rest == branches_delete(prev_parents, n - 1)
         IN  IF prev_parent # empty_tree[height].hash
             THEN Append(rest, Write("delete_branch", [hash |-> prev_parent]))
             ELSE rest

\* the callback of walk_up in MSSMT::insert: the branches to insert
RECURSIVE branches_insertion(_, _)
branches_insertion(parents, n) ==
    IF n = 0 THEN <<>>
    ELSE LET height == max_levels - n
             parent == parents[n]
             rest == branches_insertion(parents, n - 1)
         IN  IF parent.hash # empty_tree[height].hash
             THEN Append(rest, Write("insert_branch", parent))
             ELSE rest

\* MSSMT::insert with the overflow check made on the way out: the branch
\* and leaf writes are issued, then SumOverflow is returned in place of the
\* root update
MSSMT_insert_late_check(db, key, leaf) ==
    LET wd == MSSMT_walk_down(db, key) IN
    IF ~wd.ok THEN [res |-> wd.err, writes |-> <<>>, panic_at |-> -1]
    ELSE LET prev_parents == Reverse(wd.parents)
             siblings == Reverse(wd.siblings)
             wu == walk_up(key, leaf, siblings)
             flushed == branches_insertion(wu.parents, max_levels)
                        \o branches_delete(prev_parents, max_levels)
                        \o <<Write("insert_leaf", leaf)>>
         IN  IF leaf.sum + MSSMT_root(db).sum > SumMax
             THEN [res |-> "SumOverflow", writes |-> flushed, panic_at |-> -1]
             ELSE [res |-> "Ok",
                   writes |-> Append(flushed, Write("update_root", wu.root)),
                   panic_at |-> IF wu.overflow THEN 0 ELSE -1]

\* insert testing the sum the root would have without the leaf that the key
\* holds
MSSMT_insert_net_sum(db, key, leaf) ==
    LET wd == MSSMT_walk_down(db, key) IN
    IF ~wd.ok THEN [res |-> wd.err, writes |-> <<>>, panic_at |-> -1]
    ELSE IF leaf.sum + MSSMT_root(db).sum - wd.leaf.sum > SumMax
    THEN [res |-> "SumOverflow", writes |-> <<>>, panic_at |-> -1]
    ELSE LET prev_parents == Reverse(wd.parents)
             siblings == Reverse(wd.siblings)
             wu == walk_up(key, leaf, siblings)
         IN  [res |-> "Ok",
              writes |-> branches_insertion(wu.parents, max_levels)
                         \o branches_delete(prev_parents, max_levels)
                         \o <<Write("insert_leaf", leaf),
                              Write("update_root", wu.root)>>,
              panic_at |-> IF wu.overflow THEN 0 ELSE -1]

\* insert that leaves the branches of the old path in the store
MSSMT_insert_keeps_branches(db, key, leaf) ==
    IF leaf.sum + MSSMT_root(db).sum > SumMax
    THEN [res |-> "SumOverflow", writes |-> <<>>, panic_at |-> -1]
    ELSE LET wd == MSSMT_walk_down(db, key) IN
         IF ~wd.ok THEN [res |-> wd.err, writes |-> <<>>, panic_at |-> -1]
         ELSE LET siblings == Reverse(wd.siblings)
                  wu == walk_up(key, leaf, siblings)
              IN  [res |-> "Ok",
                   writes |-> branches_insertion(wu.parents, max_levels)
                              \o <<Write("insert_leaf", leaf),
                                   Write("update_root", wu.root)>>,
                   panic_at |-> IF wu.overflow THEN 0 ELSE -1]

\* insert flushing the branches to delete before the branches to insert
MSSMT_insert_deletes_first(db, key, leaf) ==
    IF leaf.sum + MSSMT_root(db).sum > SumMax
    THEN [res |-> "SumOverflow", writes |-> <<>>, panic_at |-> -1]
    ELSE LET wd == MSSMT_walk_down(db, key) IN
         IF ~wd.ok THEN [res |-> wd.err, writes |-> <<>>, panic_at |-> -1]
         ELSE LET prev_parents == Reverse(wd.parents)
                  siblings == Reverse(wd.siblings)
                  wu == walk_up(key, leaf, siblings)
              IN  [res |-> "Ok",
                   writes |-> branches_delete(prev_parents, max_levels)
                              \o branches_insertion(wu.parents, max_levels)
                              \o <<Write("insert_leaf", leaf),
                                   Write("update_root", wu.root)>>,
                   panic_at |-> IF wu.overflow THEN 0 ELSE -1]

\* insert without the SumOverflow check ahead of the walk
MSSMT_insert_unchecked(db, key, leaf) ==
    LET wd == MSSMT_walk_down(db, key) IN
    IF ~wd.ok THEN [res |-> wd.err, writes |-> <<>>, panic_at |-> -1]
    ELSE LET prev_parents == Reverse(wd.parents)
             siblings == Reverse(wd.siblings)
             wu == walk_up(key, leaf, siblings)
         IN  [res |-> "Ok",
              writes |-> branches_insertion(wu.parents, max_levels)
                         \o branches_delete(prev_parents, max_levels)
                         \o <<Write("insert_leaf", leaf),
                              Write("update_root", wu.root)>>,
              panic_at |-> IF wu.overflow THEN 0 ELSE -1]

\* MSSMT::insert: the outcome and the store writes it issues, in order.
\* panic_at is -1, or the number of writes issued before an addition of
\* Branch::new overflows (walk_up runs before every write).
MSSMT_insert(db, key, leaf) ==
    IF leaf.sum + MSSMT_root(db).sum > SumMax
    THEN [res |-> "SumOverflow", writes |-> <<>>, panic_at |-> -1]
    ELSE LET wd == MSSMT_walk_down(db, key) IN
         IF ~wd.ok THEN [res |-> wd.err, writes |-> <<>>, panic_at |-> -1]
         ELSE LET prev_parents == Reverse(wd.parents)
                  siblings == Reverse(wd.siblings)
                  wu == walk_up(key, leaf, siblings)
              IN  [res |-> "Ok",
                   writes |-> branches_insertion(wu.parents, max_levels)
                              \o branches_delete(prev_parents, max_levels)
                              \o <<Write("insert_leaf", leaf),
                                   Write("update_root", wu.root)>>,
                   panic_at |-> IF wu.overflow THEN 0 ELSE -1]

\* MSSMT::delete
MSSMT_delete(db, key) == MSSMT_insert(db, key, EmptyLeaf_new)

\* MSSMT::get
MSSMT_get(db, key) ==
    LET wd == MSSMT_walk_down(db, key) IN [ok |-> wd.ok, err |-> wd.err, leaf |-> wd.leaf]

\* merkle_proof handing out the siblings in the order walk_down meets them
MSSMT_merkle_proof_root_first(db, key) ==
    LET wd == MSSMT_walk_down(db, key)
    IN  [ok |-> wd.ok, err |-> wd.err, nodes |-> wd.siblings]

\* MSSMT::merkle_proof: siblings from the leaf's sibling up to the root's
MSSMT_merkle_proof(db, key) ==
    LET wd == MSSMT_walk_down(db, key)
    IN  [ok |-> wd.ok, err |-> wd.err, nodes |-> Reverse(wd.siblings)]

(***************************************************************************)
(* Compact leaves (node/compact.rs)                                        *)
(***************************************************************************)
\* the loop of CompactLeaf::new: for i in (height..HASH_SIZE * 8).rev()
RECURSIVE CompactLeaf_new_from(_, _, _, _)
CompactLeaf_new_from(height, key, i, current) ==
    IF i < height THEN current
    ELSE CompactLeaf_new_from(height, key, i - 1,
            IF bit_index(i, key) = 0
            THEN Branch_new(current, empty_tree[i + 1])
            ELSE Branch_new(empty_tree[i + 1], current))

\* CompactLeaf::new
CompactLeaf_new(height, key, leaf) ==
    [kind |-> "Compact",
     hash |-> CompactLeaf_new_from(height, key, max_levels - 1, leaf).hash,
     leaf |-> leaf, key |-> key]

\* the loop of CompactLeaf::extract: for j in (height + 2..=HASH_SIZE * 8).rev()
RECURSIVE CompactLeaf_extract_from(_, _, _, _)
CompactLeaf_extract_from(height, key, j, current) ==
    IF j < height + 2 THEN current
    ELSE CompactLeaf_extract_from(height, key, j - 1,
            IF bit_index(j - 1, key) = 0
            THEN Branch_new(current, empty_tree[j])
            ELSE Branch_new(empty_tree[j], current))

\* extract rebuilding the branches from the given level on, one more than
\* walk-down needs
CompactLeaf_extract_one_more(compact, height) ==
    CompactLeaf_extract_from(height - 1, compact.key, max_levels, compact.leaf)

\* CompactLeaf::extract
CompactLeaf_extract(compact, height) ==
    CompactLeaf_extract_from(height, compact.key, max_levels, compact.leaf)

(***************************************************************************)
(* Compact engine (tree/compact.rs)                                        *)
(***************************************************************************)
\* CompactMSSMT::root
CompactMSSMT_root(db) == IF db.root = <<>> THEN empty_tree[0] ELSE db.root[1]

\* CompactMSSMT::step_order
step_order(height, key, left, right) ==
    IF bit_index(height, key) = 0
    THEN [next |-> left, sibling |-> right]
    ELSE [next |-> right, sibling |-> left]

WalkErr(err) == [ok |-> FALSE, err |-> err, leaf |-> EmptyLeaf_new, siblings |-> <<>>]

\* the inner loop of CompactMSSMT::walk_down (for j in i..max_levels), which
\* walks the branches extracted from a compact leaf
RECURSIVE CompactMSSMT_walk_extracted(_, _, _, _, _)
CompactMSSMT_walk_extracted(path, j, next, sibling, siblings) ==
    LET pushed == Append(siblings, sibling)
        current == next
    IN  IF j < max_levels - 1
        THEN IF current.kind # "Branch" THEN WalkErr("ExpectedBranch")
             ELSE LET so == step_order(j + 1, path, current.left, current.right)
                  IN  CompactMSSMT_walk_extracted(path, j + 1, so.next, so.sibling, pushed)
        ELSE IF current.kind = "Leaf"
             THEN [ok |-> TRUE, err |-> "", leaf |-> current, siblings |-> pushed]
             ELSE WalkErr("ExpectedLeaf")

\* the outer loop of CompactMSSMT::walk_down (for i in 0..max_levels)
RECURSIVE CompactMSSMT_walk_down_from(_, _, _, _, _)
CompactMSSMT_walk_down_from(db, path, i, current, siblings) ==
    IF i = max_levels
    THEN IF current.kind = "Leaf"
         THEN [ok |-> TRUE, err |-> "", leaf |-> current, siblings |-> siblings]
         ELSE WalkErr("ExpectedLeaf")
    ELSE LET ch == get_children(db, i, current.hash) IN
         IF ~ch.ok THEN WalkErr(ch.err)
         ELSE LET so == step_order(i, path, ch.left, ch.right) IN
              IF so.next.kind = "Compact"
              THEN LET next == CompactLeaf_extract(so.next, i)
                       sibling == IF so.sibling.kind = "Compact"
                                  THEN CompactLeaf_extract(so.sibling, i)
                                  ELSE so.sibling
                   IN  CompactMSSMT_walk_extracted(path, i, next, sibling, siblings)
              ELSE CompactMSSMT_walk_down_from(db, path, i + 1, so.next,
                                               Append(siblings, so.sibling))

\* CompactMSSMT::walk_down: a root that was never written is NodeNotFound
CompactMSSMT_walk_down(db, path) ==
    IF db.root = <<>> THEN WalkErr("NodeNotFound")
    ELSE CompactMSSMT_walk_down_from(db, path, 0, db.root[1], <<>>)

\* the first loop of CompactMSSMT::merge: the length of the common prefix
RECURSIVE common_prefix(_, _, _)
common_prefix(key1, key2, i) ==
    IF i < max_levels /\ bit_index(i, key1) = bit_index(i, key2)
    THEN common_prefix(key1, key2, i + 1)
    ELSE i

\* the second loop of CompactMSSMT::merge: for i in (height..i).rev()
RECURSIVE merge_up(_, _, _, _, _, _)
merge_up(height, key1, i, parent, writes, panic_at) ==
    IF i < height
    THEN [branch |-> parent, writes |-> writes, panic_at |-> panic_at]
    ELSE merge_up(height, key1, i - 1,
                  Branch_new(step_order(i, key1, parent, empty_tree[i + 1]).next,
                             step_order(i, key1, parent, empty_tree[i + 1]).sibling),
                  Append(writes,
                         Write("insert_branch",
                               Branch_new(step_order(i, key1, parent, empty_tree[i + 1]).next,
                                          step_order(i, key1, parent, empty_tree[i + 1]).sibling))),
                  panic_at)

\* CompactMSSMT::merge from the two compacted leaves on: the five store
\* writes, the branch over the two leaves, and the walk up to height
merge_nodes(height, key1, leaf1, leaf2, i, node1, node2) ==
    merge_up(height, key1, i - 1,
             Branch_new(step_order(i, key1, node1, node2).next,
                        step_order(i, key1, node1, node2).sibling),
             <<Write("insert_leaf", leaf1),
               Write("insert_leaf", leaf2),
               Write("insert_compact_leaf", node1),
               Write("insert_compact_leaf", node2),
               Write("insert_branch",
                     Branch_new(step_order(i, key1, node1, node2).next,
                                step_order(i, key1, node1, node2).sibling))>>,
             IF AddOverflows(node1, node2) THEN 4 ELSE -1)

\* merge making the two compact leaves for the level of their parent
merge_at_parent_level(height, key1, leaf1, key2, leaf2, i) ==
    merge_nodes(height, key1, leaf1, leaf2, i,
                CompactLeaf_new(i, key1, leaf1),
                CompactLeaf_new(i, key2, leaf2))

\* CompactMSSMT::merge with i the length of the common prefix
merge_at(height, key1, leaf1, key2, leaf2, i) ==
    merge_nodes(height, key1, leaf1, leaf2, i,
                CompactLeaf_new(i + 1, key1, leaf1),
                CompactLeaf_new(i + 1, key2, leaf2))

\* CompactMSSMT::merge: the branch, the store writes in order, and panic_at
\* (-1, or the number of writes issued before the overflowing Branch::new)
CompactMSSMT_merge(height, key1, leaf1, key2, leaf2) ==
    merge_at(height, key1, leaf1, key2, leaf2, common_prefix(key1, key2, 0))

InsertErr(err) ==
    [ok |-> FALSE, err |-> err, branch |-> empty_tree[0], writes |-> <<>>,
     panic_at |-> -1]

\* CompactMSSMT::insert_leaf, the Node::Compact arm with another key: the old
\* leaf is deleted, then the two leaves are merged (result m)
insert_leaf_merged(deletes, m) ==
    [ok |-> TRUE, err |-> "", branch |-> m.branch,
     writes |-> deletes \o m.writes,
     panic_at |-> IF m.panic_at < 0 THEN -1 ELSE Len(deletes) + m.panic_at]

\* CompactMSSMT::insert_leaf, the end: delete the old root if not empty,
\* create the new root, insert it if not a default one
insert_leaf_root(height, root_hash, is_left, sibling, new_node) ==
    IF ~new_node.ok THEN new_node
    ELSE LET branch == IF is_left
                       THEN Branch_new(new_node.branch, sibling)
                       ELSE Branch_new(sibling, new_node.branch)
             delete_old == IF root_hash # empty_tree[height].hash
                           THEN <<Write("delete_branch", [hash |-> root_hash])>>
                           ELSE <<>>
             insert_new == IF branch.hash # empty_tree[height].hash
                           THEN <<Write("insert_branch", branch)>>
                           ELSE <<>>
         IN  [ok |-> TRUE, err |-> "", branch |-> branch,
              writes |-> new_node.writes \o delete_old \o insert_new,
              panic_at |-> IF new_node.panic_at >= 0 THEN new_node.panic_at
                           ELSE IF AddOverflows(new_node.branch, sibling)
                           THEN Len(new_node.writes) + Len(delete_old)
                           ELSE -1]

\* CompactMSSMT::insert_leaf: the new branch, the store writes in order, and
\* panic_at.  The store never returns a Node::Computed, so that arm of the
\* match is not reached; a Node::Leaf falls to the last arm.  Every read
\* (get_children) of an insert precedes its first write: the writes are
\* issued while the recursion returns.
RECURSIVE CompactMSSMT_insert_leaf(_, _, _, _, _)

\* the match on next of CompactMSSMT::insert_leaf
insert_leaf_match(db, key, next_height, leaf, next, new_leaf) ==
    CASE next.kind = "Branch" ->
           IF next.hash = empty_tree[next_height].hash
           THEN [ok |-> TRUE, err |-> "", branch |-> new_leaf,
                 writes |-> <<Write("insert_leaf", leaf),
                              Write("insert_compact_leaf", new_leaf)>>,
                 panic_at |-> -1]
           ELSE CompactMSSMT_insert_leaf(db, key, next_height, next.hash, leaf)
      [] next.kind = "Compact" ->
           IF key = next.key
           THEN [ok |-> TRUE, err |-> "", branch |-> new_leaf,
                 writes |-> <<Write("delete_leaf", [hash |-> next.leaf.hash]),
                              Write("delete_compact_leaf", [hash |-> next.hash]),
                              Write("insert_leaf", leaf),
                              Write("insert_compact_leaf", new_leaf)>>,
                 panic_at |-> -1]
           ELSE insert_leaf_merged(
                    <<Write("delete_leaf", [hash |-> next.leaf.hash]),
                      Write("delete_compact_leaf", [hash |-> next.hash])>>,
                    CompactMSSMT_merge(next_height, key, leaf, next.key, next.leaf))
      [] OTHER -> InsertErr("ExpectedBranch")

\* CompactMSSMT::insert_leaf from the children ch of the current node on
insert_leaf_children(db, key, height, root_hash, leaf, ch) ==
    IF ~ch.ok THEN InsertErr(ch.err)
    ELSE insert_leaf_root(height, root_hash, bit_index(height, key) = 0,
             step_order(height, key, ch.left, ch.right).sibling,
             insert_leaf_match(db, key, height + 1, leaf,
                 step_order(height, key, ch.left, ch.right).next,
                 CompactLeaf_new(height + 1, key, leaf)))

CompactMSSMT_insert_leaf(db, key, height, root_hash, leaf) ==
    insert_leaf_children(db, key, height, root_hash, leaf,
                         get_children(db, height, root_hash))

\* the end of insert with update_root ahead of the writes of insert_leaf
insert_update_root_first(r) ==
    IF ~r.ok THEN [res |-> r.err, writes |-> <<>>, panic_at |-> -1]
    ELSE [res |-> "Ok",
          writes |-> <<Write("update_root", r.branch)>> \o r.writes,
          panic_at |-> IF r.panic_at < 0 THEN -1 ELSE r.panic_at + 1]

\* CompactMSSMT::insert, the end: update_root once insert_leaf returned r
insert_update_root(r) ==
    IF ~r.ok THEN [res |-> r.err, writes |-> <<>>, panic_at |-> -1]
    ELSE [res |-> "Ok",
          writes |-> Append(r.writes, Write("update_root", r.branch)),
          panic_at |-> r.panic_at]

\* CompactMSSMT::insert: the outcome and the store writes it issues, in order
CompactMSSMT_insert(db, key, leaf) ==
    IF CompactMSSMT_root(db).sum + leaf.sum > SumMax
    THEN [res |-> "SumOverflow", writes |-> <<>>, panic_at |-> -1]
    ELSE insert_update_root(
             CompactMSSMT_insert_leaf(db, key, 0, CompactMSSMT_root(db).hash, leaf))

\* CompactMSSMT::merkle_proof
CompactMSSMT_merkle_proof(db, key) ==
    LET wd == CompactMSSMT_walk_down(db, key)
    IN  [ok |-> wd.ok, err |-> wd.err, nodes |-> Reverse(wd.siblings)]

\* CompactMSSMT::delete: same contract as MSSMT::delete, insert of an EmptyLeaf
CompactMSSMT_delete(db, key) == CompactMSSMT_insert(db, key, EmptyLeaf_new)

\* CompactMSSMT::get: same contract as MSSMT::get, the leaf walk_down ends at
CompactMSSMT_get(db, key) ==
    LET wd == CompactMSSMT_walk_down(db, key) IN [ok |-> wd.ok, err |-> wd.err, leaf |-> wd.leaf]

(***************************************************************************)
(* Proof::verify_merkle_proof (proof.rs) and verify_merkle_proof           *)
(* (tree/mod.rs).  The additions of walk_up are unchecked: when one        *)
(* overflows, a build with overflow checks panics and a build without      *)
(* them goes on with the wrapped sum.                                      *)
(***************************************************************************)
verify_merkle_proof(checks, key, leaf, nodes, root_hash) ==
    LET wu == walk_up(key, leaf, nodes)
    IN  IF wu.overflow /\ checks THEN "Panic"
        ELSE IF wu.root.kind # "Branch" THEN "ExpectedBranch"
        ELSE IF wu.root.hash = root_hash THEN "Ok"
        ELSE "InvalidMerkleProof"

(***************************************************************************)
(* Proof codec: compress / decompress against the empty-tree table, and    *)
(* the wire format.  A byte is an integer in 0..255; a digest, which the   *)
(* code copies as HASH_SIZE bytes, is one element of the byte sequence; a  *)
(* sum takes SumBytes bytes, big-endian.                                   *)
(***************************************************************************)
\* ComputedNode::new
ComputedNode_new(hash, sum) == [kind |-> "Computed", hash |-> hash, sum |-> sum]

\* CompressedProof::new
CompressedProof_new(nodes, bits) == [nodes |-> nodes, bits |-> bits]

RECURSIVE compress_from(_, _, _, _)
\* the loop of Proof::compress from node i (0-based) on
compress_from(proof, i, nodes, bits) ==
    IF i >= Len(proof) THEN CompressedProof_new(nodes, bits)
    ELSE IF proof[i + 1].hash = empty_tree[HASH_SIZE * 8 - i].hash
         THEN compress_from(proof, i + 1, nodes, Append(bits, TRUE))
         ELSE compress_from(proof, i + 1, Append(nodes, proof[i + 1]),
                            Append(bits, FALSE))

RECURSIVE compress_root_first_from(_, _, _, _)
\* the same loop comparing node i with entry i of the empty-tree table
compress_root_first_from(proof, i, nodes, bits) ==
    IF i >= Len(proof) THEN CompressedProof_new(nodes, bits)
    ELSE IF proof[i + 1].hash = empty_tree[i].hash
         THEN compress_root_first_from(proof, i + 1, nodes, Append(bits, TRUE))
         ELSE compress_root_first_from(proof, i + 1, Append(nodes, proof[i + 1]),
                                       Append(bits, FALSE))

\* compress over that loop
compress_root_first(proof) == compress_root_first_from(proof, 0, <<>>, <<>>)

\* Proof::compress
compress(proof) == compress_from(proof, 0, <<>>, <<>>)

\* BitVec::count_zeros
count_zeros(bits) == Cardinality({i \in 1..Len(bits) : ~bits[i]})

RECURSIVE decompress_from(_, _, _, _)
\* the loop of CompressedProof::decompress from bit i (0-based) on; the
\* empty-tree table has no entry for a set bit past 8N
decompress_from(c, i, next_node, nodes) ==
    IF i >= Len(c.bits) THEN [ok |-> TRUE, err |-> "None", nodes |-> nodes]
    ELSE IF c.bits[i + 1]
         THEN IF i > HASH_SIZE * 8
              THEN [ok |-> FALSE, err |-> "Panic", nodes |-> <<>>]
              ELSE decompress_from(c, i + 1, next_node,
                                   Append(nodes, empty_tree[HASH_SIZE * 8 - i]))
         ELSE decompress_from(c, i + 1, next_node + 1,
                              Append(nodes, c.nodes[next_node + 1]))

RECURSIVE decompress_root_first_from(_, _, _, _)
\* the same loop taking entry i of the empty-tree table for bit i
decompress_root_first_from(c, i, next_node, nodes) ==
    IF i >= Len(c.bits) THEN [ok |-> TRUE, err |-> "None", nodes |-> nodes]
    ELSE IF c.bits[i + 1]
         THEN IF i > HASH_SIZE * 8
              THEN [ok |-> FALSE, err |-> "Panic", nodes |-> <<>>]
              ELSE decompress_root_first_from(c, i + 1, next_node,
                                              Append(nodes, empty_tree[i]))
         ELSE decompress_root_first_from(c, i + 1, next_node + 1,
                                         Append(nodes, c.nodes[next_node + 1]))

\* decompress over that loop
decompress_root_first(c) ==
    IF Len(c.nodes) # count_zeros(c.bits)
    THEN [ok |-> FALSE, err |-> "InvalidMerkleProof", nodes |-> <<>>]
    ELSE decompress_root_first_from(c, 0, 0, <<>>)

\* CompressedProof::decompress
decompress(c) ==
    IF Len(c.nodes) # count_zeros(c.bits)
    THEN [ok |-> FALSE, err |-> "InvalidMerkleProof", nodes |-> <<>>]
    ELSE decompress_from(c, 0, 0, <<>>)

\* the bytes of a Sum
SumBytes == (SumBits + 7) \div 8

\* u16::to_be_bytes, Sum::to_be_bytes
to_be_bytes(n, width) == [j \in 1..width |-> (n \div Pow2(8 * (width - j))) % 256]

RECURSIVE from_be_bytes(_)
\* u16::from_be_bytes, Sum::from_be_bytes
from_be_bytes(bytes) ==
    IF bytes = <<>> THEN 0
    ELSE 256 * from_be_bytes(SubSeq(bytes, 1, Len(bytes) - 1)) + bytes[Len(bytes)]

\* bit j (0-based) of BitVec<u8, Lsb0> as a number
lsb0_bit(bits, j) == IF j < Len(bits) /\ bits[j + 1] THEN 1 ELSE 0

\* BitVec<u8, Lsb0>::as_raw_slice
as_raw_slice(bits) ==
    [b \in 1..((Len(bits) + 7) \div 8) |->
        lsb0_bit(bits, 8 * (b - 1)) + 2 * lsb0_bit(bits, 8 * (b - 1) + 1)
        + 4 * lsb0_bit(bits, 8 * (b - 1) + 2) + 8 * lsb0_bit(bits, 8 * (b - 1) + 3)
        + 16 * lsb0_bit(bits, 8 * (b - 1) + 4) + 32 * lsb0_bit(bits, 8 * (b - 1) + 5)
        + 64 * lsb0_bit(bits, 8 * (b - 1) + 6) + 128 * lsb0_bit(bits, 8 * (b - 1) + 7)]

\* BitVec::<u8, Lsb0>::from_slice
from_slice(bytes) ==
    [j \in 1..(8 * Len(bytes)) |->
        (bytes[((j - 1) \div 8) + 1] \div Pow2((j - 1) % 8)) % 2 = 1]

\* the same bytes read most significant bit first
from_slice_msb0(bytes) ==
    [j \in 1..(8 * Len(bytes)) |->
        (bytes[((j - 1) \div 8) + 1] \div Pow2(7 - ((j - 1) % 8))) % 2 = 1]

RECURSIVE encode_nodes(_, _)
\* the loop of CompressedProof::encode
encode_nodes(nodes, encoded) ==
    IF nodes = <<>> THEN encoded
    ELSE encode_nodes(Tail(nodes),
                      encoded \o <<Head(nodes).hash>>
                              \o to_be_bytes(Node_sum(Head(nodes)), SumBytes))

\* CompressedProof::encode
encode(c) ==
    encode_nodes(c.nodes, to_be_bytes(Len(c.nodes) % 65536, 2)) \o as_raw_slice(c.bits)

RECURSIVE decode_nodes(_, _, _, _)
\* the loop of CompressedProof::decode, nb nodes left to read at data_index
decode_nodes(data, nb, data_index, nodes) ==
    IF nb = 0 THEN [nodes |-> nodes, data_index |-> data_index]
    ELSE decode_nodes(data, nb - 1, data_index + HASH_SIZE + SumBytes,
             Append(nodes,
                 ComputedNode_new(data[data_index + 1],
                     from_be_bytes(SubSeq(data, data_index + HASH_SIZE + 1,
                                          data_index + HASH_SIZE + SumBytes)))))

\* the input of CompressedProof::decode holds the nodes it announces; a
\* slice past its end panics
decode_in_range(data) ==
    /\ Len(data) >= 2
    /\ Len(data) >= 2 + from_be_bytes(SubSeq(data, 1, 2)) * (HASH_SIZE + SumBytes)

\* CompressedProof::decode reading the bits most significant first
decode_msb0(data) ==
    IF ~decode_in_range(data)
    THEN [panic |-> TRUE, nodes |-> <<>>, bits |-> <<>>]
    ELSE LET d == decode_nodes(data, from_be_bytes(SubSeq(data, 1, 2)), 2, <<>>)
         IN  [panic |-> FALSE, nodes |-> d.nodes,
              bits |-> from_slice_msb0(SubSeq(data, d.data_index + 1, Len(data)))]

\* CompressedProof::decode
decode(data) ==
    IF ~decode_in_range(data)
    THEN [panic |-> TRUE, nodes |-> <<>>, bits |-> <<>>]
    ELSE LET d == decode_nodes(data, from_be_bytes(SubSeq(data, 1, 2)), 2, <<>>)
         IN  [panic |-> FALSE, nodes |-> d.nodes,
              bits |-> from_slice(SubSeq(data, d.data_index + 1, Len(data)))]

(***************************************************************************)
(* State: the two stores, the outcome of the last operation on each, and   *)
(* the map key -> leaf that the successful operations on each engine have  *)
(* left (an EmptyLeaf for a key that holds nothing).  overflow_checks is   *)
(* the build profile: with overflow checks an overflowing + panics,        *)
(* without them it wraps.  An engine that panicked takes no further        *)
(* operation.  codec is the proof in the hands of a caller: the proof, its *)
(* compressed form, the bytes on the wire, what the receiver decodes and   *)
(* what decompress returns.                                                *)
(***************************************************************************)
VARIABLES rdb, cdb, rres, cres, rmap, cmap, nops, overflow_checks, codec,
          empty_tree_builds

vars == <<rdb, cdb, rres, cres, rmap, cmap, nops, overflow_checks, codec,
          empty_tree_builds>>

LeafInputs == {Leaf_new(value, sum) : value \in Values, sum \in Sums}

EmptyMap == [k \in Keys |-> EmptyLeaf_new]

\* no proof taken yet
NoProof ==
    [stage |-> "None", proof |-> <<>>, compressed |-> CompressedProof_new(<<>>, <<>>),
     encoded |-> <<>>, decoded |-> [panic |-> FALSE, nodes |-> <<>>, bits |-> <<>>],
     from |-> "None", result |-> [ok |-> FALSE, err |-> "None", nodes |-> <<>>]]

\* the builds of the empty-tree table are counted up to MaxBuilds
MaxBuilds == 2

\* EmptyTree::empty_tree called n more times.  EMPTY_TREE is a const item,
\* not a static: every mention of it is a new LazyCell, which the clone
\* forces, so every call runs build_tree.
EmptyTree_empty_tree(n) ==
    empty_tree_builds' = IF empty_tree_builds + n > MaxBuilds THEN MaxBuilds
                         ELSE empty_tree_builds + n

\* the calls of CompactLeaf::new behind the first n writes of an insert,
\* each of which is followed by the write of the compact leaf it made
CompactLeaf_new_calls(ws, n) ==
    Cardinality({i \in 1..n : ws[i].op = "insert_compact_leaf"})

Init ==
    /\ rdb = MemoryDb_new
    /\ cdb = MemoryDb_new
    /\ rres = "None"
    /\ cres = "None"
    /\ rmap = EmptyMap
    /\ cmap = EmptyMap
    /\ nops = 0
    /\ overflow_checks \in BOOLEAN
    /\ codec = NoProof
    /\ empty_tree_builds = 2

\* an operation panics when a store lookup panics, or when an addition
\* overflows in a build that checks
Panics(r) == r.res = "Panic" \/ (r.panic_at >= 0 /\ overflow_checks)

\* the outcome of an operation
Outcome(r) == IF Panics(r) THEN "Panic" ELSE r.res

\* the number of store writes an operation completes: all of them, or
\* those issued before the panic
WritesDone(r) ==
    IF r.panic_at >= 0 /\ overflow_checks THEN r.panic_at ELSE Len(r.writes)

\* the store after an operation
StoreAfter(db, r) == ApplyWrites(db, r.writes, WritesDone(r))

\* the map after an operation
MapAfter(map, key, leaf, r) ==
    IF Outcome(r) = "Ok" THEN [map EXCEPT ![key] = leaf] ELSE map

\* one operation on the regular engine, with result r
RegularStep(key, leaf, r) ==
    IF rres = "Panic" THEN UNCHANGED <<rdb, rmap, rres>>
    ELSE /\ rdb' = StoreAfter(rdb, r)
         /\ rmap' = MapAfter(rmap, key, leaf, r)
         /\ rres' = Outcome(r)

\* one operation on the compact engine, with result c
CompactStep(key, leaf, c) ==
    IF cres = "Panic" THEN UNCHANGED <<cdb, cmap, cres>>
    ELSE /\ cdb' = StoreAfter(cdb, c)
         /\ cmap' = MapAfter(cmap, key, leaf, c)
         /\ cres' = Outcome(c)

\* a store write has returned an error; the run ends there
StoreFailed == rres = "DbError" \/ cres = "DbError"

\* insert(key, leaf) on both engines
Insert(key, leaf) ==
    /\ nops < MaxOps
    /\ ~StoreFailed
    /\ nops' = nops + 1
    /\ RegularStep(key, leaf, MSSMT_insert(rdb, key, leaf))
    /\ CompactStep(key, leaf, CompactMSSMT_insert(cdb, key, leaf))
    /\ EmptyTree_empty_tree(
          IF cres = "Panic" THEN 0
          ELSE CompactLeaf_new_calls(CompactMSSMT_insert(cdb, key, leaf).writes,
                                     WritesDone(CompactMSSMT_insert(cdb, key, leaf))))
    /\ UNCHANGED <<overflow_checks, codec>>

\* delete(key) on the regular engine; the compact engine, which has no
\* delete of its own, inserts an EmptyLeaf
Delete(key) ==
    /\ nops < MaxOps
    /\ ~StoreFailed
    /\ nops' = nops + 1
    /\ RegularStep(key, EmptyLeaf_new, MSSMT_delete(rdb, key))
    /\ CompactStep(key, EmptyLeaf_new, CompactMSSMT_insert(cdb, key, EmptyLeaf_new))
    /\ EmptyTree_empty_tree(
          IF cres = "Panic" THEN 0
          ELSE CompactLeaf_new_calls(CompactMSSMT_insert(cdb, key, EmptyLeaf_new).writes,
                                     WritesDone(CompactMSSMT_insert(cdb, key, EmptyLeaf_new))))
    /\ UNCHANGED <<overflow_checks, codec>>

Next ==
    \/ \E key \in Keys, leaf \in LeafInputs : Insert(key, leaf)
    \/ \E key \in Keys : Delete(key)

Spec == Init /\ [][Next]_vars

(***************************************************************************)
(* The same engines over a store whose writes can return an error.  The    *)
(* write with index n + 1 of the operation fails: the n writes before it   *)
(* are in the store, the operation returns the error at once and the       *)
(* writes after it are never issued.  update_root is the last write of an  *)
(* operation; the failing write is one of those before it.                 *)
(***************************************************************************)
MaxWrites == 4 * max_levels

\* the operation with result r has a write n + 1 before its update_root
StoreErrorAt(r, n) == Outcome(r) = "Ok" /\ n < Len(r.writes) - 1

\* insert(key, leaf) on the regular engine, the store failing write n + 1
InsertStoreError(key, leaf, n) ==
    /\ nops < MaxFailOps
    /\ ~StoreFailed
    /\ rres # "Panic"
    /\ StoreErrorAt(MSSMT_insert(rdb, key, leaf), n)
    /\ rdb' = ApplyWrites(rdb, MSSMT_insert(rdb, key, leaf).writes, n)
    /\ rres' = "DbError"
    /\ nops' = nops + 1
    /\ UNCHANGED <<cdb, cres, rmap, cmap, overflow_checks, codec, empty_tree_builds>>

\* insert(key, leaf) on the compact engine, the store failing write n + 1
CompactInsertStoreError(key, leaf, n) ==
    /\ nops < MaxFailOps
    /\ ~StoreFailed
    /\ cres # "Panic"
    /\ StoreErrorAt(CompactMSSMT_insert(cdb, key, leaf), n)
    /\ cdb' = ApplyWrites(cdb, CompactMSSMT_insert(cdb, key, leaf).writes, n)
    /\ cres' = "DbError"
    /\ nops' = nops + 1
    /\ EmptyTree_empty_tree(
          CompactLeaf_new_calls(CompactMSSMT_insert(cdb, key, leaf).writes, n))
    /\ UNCHANGED <<rdb, rres, rmap, cmap, overflow_checks, codec>>

NextFail ==
    \/ \E key \in Keys, leaf \in LeafInputs : Insert(key, leaf)
    \/ \E key \in Keys : Delete(key)
    \/ \E key \in Keys, leaf \in LeafInputs, n \in 0..MaxWrites :
          InsertStoreError(key, leaf, n)
    \/ \E key \in Keys, leaf \in LeafInputs, n \in 0..MaxWrites :
          CompactInsertStoreError(key, leaf, n)

SpecFail == Init /\ [][NextFail]_vars

(***************************************************************************)
(* The proof codec at work: a caller holds a proof of 8N siblings,         *)
(* compresses it, and either decompresses it at once or encodes it, after  *)
(* which the receiver decodes the bytes and decompresses the result.       *)
(***************************************************************************)
\* the subtree that holds the one leaf L under key KeySeq[1], at every
\* height: the leaf first, the root last
InhabitedPath ==
    <<NonEmptyLeaf_new(<<1>>, 1)>>
    \o walk_up(KeySeq[1], NonEmptyLeaf_new(<<1>>, 1),
               [i \in 1..max_levels |-> empty_tree[max_levels - i + 1]]).parents

\* the siblings a proof can hold at index i (0-based): the empty subtree of
\* that height, an inhabited subtree of that height and, at the two ends of
\* the proof, a ComputedNode that carries the empty subtree's hash with a
\* sum of its own
SiblingInputs(i) ==
    {empty_tree[HASH_SIZE * 8 - i], InhabitedPath[i + 1]}
    \cup (IF i = 0 \/ i = max_levels - 1
          THEN {ComputedNode_new(empty_tree[HASH_SIZE * 8 - i].hash, 1)}
          ELSE {})

RECURSIVE ProofsOfLen(_)
ProofsOfLen(n) ==
    IF n = 0 THEN {<<>>}
    ELSE {Append(p, s) : p \in ProofsOfLen(n - 1), s \in SiblingInputs(n - 1)}

\* the proofs of 8N siblings
ProofInputs == ProofsOfLen(max_levels)

TreeVars == <<rdb, cdb, rres, cres, rmap, cmap, nops, overflow_checks>>

\* Proof::new
Proof_new(proof) ==
    /\ codec.stage = "None"
    /\ codec' = [codec EXCEPT !.stage = "Proof", !.proof = proof]
    /\ EmptyTree_empty_tree(0)
    /\ UNCHANGED TreeVars

\* Proof::compress
Proof_compress ==
    /\ codec.stage = "Proof"
    /\ codec' = [codec EXCEPT !.stage = "Compressed",
                              !.compressed = compress(codec.proof)]
    /\ EmptyTree_empty_tree(1)
    /\ UNCHANGED TreeVars

\* CompressedProof::encode
CompressedProof_encode ==
    /\ codec.stage = "Compressed"
    /\ codec' = [codec EXCEPT !.stage = "Encoded",
                              !.encoded = encode(codec.compressed)]
    /\ EmptyTree_empty_tree(0)
    /\ UNCHANGED TreeVars

\* CompressedProof::decode
CompressedProof_decode ==
    /\ codec.stage = "Encoded"
    /\ codec' = [codec EXCEPT !.stage = "Decoded",
                              !.decoded = decode(codec.encoded)]
    /\ EmptyTree_empty_tree(0)
    /\ UNCHANGED TreeVars

\* CompressedProof::decompress, of the compressed proof itself
CompressedProof_decompress ==
    /\ codec.stage = "Compressed"
    /\ codec' = [codec EXCEPT !.stage = "Decompressed", !.from = "Compressed",
                              !.result = decompress(codec.compressed)]
    /\ EmptyTree_empty_tree(IF decompress(codec.compressed).err = "InvalidMerkleProof" THEN 0 ELSE 1)
    /\ UNCHANGED TreeVars

\* CompressedProof::decompress, of what the receiver decoded
Decoded_decompress ==
    /\ codec.stage = "Decoded"
    /\ ~codec.decoded.panic
    /\ codec' = [codec EXCEPT !.stage = "Decompressed", !.from = "Decoded",
                              !.result = decompress(codec.decoded)]
    /\ EmptyTree_empty_tree(IF decompress(codec.decoded).err = "InvalidMerkleProof" THEN 0 ELSE 1)
    /\ UNCHANGED TreeVars

\* the bitmaps a compressed proof can arrive with: 8N bits with none, one or
\* two of them clear, followed by up to MaxTail more bits
BitmapHeads ==
    {[l \in 1..max_levels |-> l \notin clear] : clear \in {{}, {2}, {1, max_levels}}}

MaxTail == 2

RECURSIVE BitmapTails(_)
BitmapTails(n) ==
    IF n = 0 THEN {<<>>}
    ELSE BitmapTails(n - 1)
         \cup {Append(t, b) : t \in {u \in BitmapTails(n - 1) : Len(u) = n - 1},
                              b \in BOOLEAN}

\* n listed nodes
ListedNodes(n) == [j \in 1..n |-> InhabitedPath[((j - 1) % max_levels) + 1]]

\* the compressed proofs built by CompressedProof::new from parts of any
\* shape: as many listed nodes as clear bits, one fewer or one more
CompressedInputs ==
    {CompressedProof_new(ListedNodes(n), head \o tail) :
        head \in BitmapHeads, tail \in BitmapTails(MaxTail),
        n \in 0..(max_levels + MaxTail)}

\* CompressedProof::new, of nodes and bits that no compress produced
CompressedProof_received(c) ==
    /\ codec.stage = "None"
    /\ Len(c.nodes) - count_zeros(c.bits) \in {-1, 0, 1}
    /\ codec' = [codec EXCEPT !.stage = "Received", !.compressed = c]
    /\ EmptyTree_empty_tree(0)
    /\ UNCHANGED TreeVars

\* CompressedProof::decompress, of such a compressed proof
Received_decompress ==
    /\ codec.stage = "Received"
    /\ codec' = [codec EXCEPT !.stage = "Decompressed", !.from = "Received",
                              !.result = decompress(codec.compressed)]
    /\ EmptyTree_empty_tree(IF decompress(codec.compressed).err = "InvalidMerkleProof" THEN 0 ELSE 1)
    /\ UNCHANGED TreeVars

NextProof ==
    \/ \E proof \in ProofInputs : Proof_new(proof)
    \/ Proof_compress
    \/ CompressedProof_encode
    \/ CompressedProof_decode
    \/ CompressedProof_decompress
    \/ Decoded_decompress
    \/ \E c \in CompressedInputs : CompressedProof_received(c)
    \/ Received_decompress

SpecProof == Init /\ [][NextProof]_vars

(***************************************************************************)
(* Helpers of the properties                                               *)
(***************************************************************************)
Inhabited(leaf) == leaf.hash # EmptyLeaf_new.hash

SameRoot(a, b) == a.hash = b.hash /\ a.sum = b.sum

RECURSIVE SumOfMap(_, _)
SumOfMap(map, n) ==
    IF n = 0 THEN 0 ELSE SumOfMap(map, n - 1) + map[KeySeq[n]].sum

\* The store a fresh regular engine holds after the inhabited keys of map
\* have been inserted one by one, in the order of KeySeq; ok tells that every
\* insert succeeded.
RECURSIVE MSSMT_replay(_, _)
MSSMT_replay(map, n) ==
    IF n = 0 THEN [ok |-> TRUE, db |-> MemoryDb_new]
    ELSE LET prev == MSSMT_replay(map, n - 1)
             key == KeySeq[n]
         IN  IF ~prev.ok \/ ~Inhabited(map[key]) THEN prev
             ELSE LET r == MSSMT_insert(prev.db, key, map[key])
                  IN  [ok |-> Outcome(r) = "Ok", db |-> StoreAfter(prev.db, r)]

\* the same for a fresh compact engine
RECURSIVE CompactMSSMT_replay(_, _)
CompactMSSMT_replay(map, n) ==
    IF n = 0 THEN [ok |-> TRUE, db |-> MemoryDb_new]
    ELSE LET prev == CompactMSSMT_replay(map, n - 1)
             key == KeySeq[n]
         IN  IF ~prev.ok \/ ~Inhabited(map[key]) THEN prev
             ELSE LET c == CompactMSSMT_insert(prev.db, key, map[key])
                  IN  [ok |-> Outcome(c) = "Ok", db |-> StoreAfter(prev.db, c)]

\* the outcome of verifying (key, leaf) with the proof of key against the root
MSSMT_verify(db, key, leaf) ==
    LET proof == MSSMT_merkle_proof(db, key)
    IN  IF ~proof.ok THEN proof.err
        ELSE verify_merkle_proof(overflow_checks, key, leaf, proof.nodes,
                                 MSSMT_root(db).hash)

CompactMSSMT_verify(db, key, leaf) ==
    LET proof == CompactMSSMT_merkle_proof(db, key)
    IN  IF ~proof.ok THEN proof.err
        ELSE verify_merkle_proof(overflow_checks, key, leaf, proof.nodes,
                                 CompactMSSMT_root(db).hash)

(***************************************************************************)
(* C1  History independence of the root: two sequences of successful       *)
(* operations that leave the same map give the same root.hash and          *)
(* root.sum.  The second sequence is the one that inserts the inhabited    *)
(* keys of the map once each into a fresh tree.                            *)
(***************************************************************************)
C1_HistoryIndependence ==
    /\ rres # "Panic" =>
         LET rep == MSSMT_replay(rmap, Len(KeySeq))
         IN  rep.ok => SameRoot(MSSMT_root(rdb), MSSMT_root(rep.db))
    /\ cres # "Panic" =>
         LET rep == CompactMSSMT_replay(cmap, Len(KeySeq))
         IN  rep.ok => SameRoot(CompactMSSMT_root(cdb), CompactMSSMT_root(rep.db))

(***************************************************************************)
(* C2  Root equivalence: after every step the two engines report the same  *)
(* outcome and the same (root.hash, root.sum).                             *)
(***************************************************************************)
C2_RootEquivalence ==
    /\ rres = cres
    /\ SameRoot(MSSMT_root(rdb), CompactMSSMT_root(cdb))

(***************************************************************************)
(* C3  Inclusion proofs verify: for every key that holds an inhabited      *)
(* leaf, merkle_proof succeeds and the leaf verifies against root.hash,    *)
(* in both engines.                                                        *)
(***************************************************************************)
C3_InclusionProofsVerify ==
    \A k \in Keys :
        /\ (rres # "Panic" /\ Inhabited(rmap[k])) => MSSMT_verify(rdb, k, rmap[k]) = "Ok"
        /\ (cres # "Panic" /\ Inhabited(cmap[k])) => CompactMSSMT_verify(cdb, k, cmap[k]) = "Ok"

(***************************************************************************)
(* C4  Exclusion proofs verify: for every key that holds no inhabited      *)
(* leaf, merkle_proof succeeds and EmptyLeaf verifies against root.hash,   *)
(* in both engines, the fresh tree included.                               *)
(***************************************************************************)
C4_ExclusionProofsVerify ==
    \A k \in Keys :
        /\ (rres # "Panic" /\ ~Inhabited(rmap[k])) =>
              MSSMT_verify(rdb, k, EmptyLeaf_new) = "Ok"
        /\ (cres # "Panic" /\ ~Inhabited(cmap[k])) =>
              CompactMSSMT_verify(cdb, k, EmptyLeaf_new) = "Ok"

(***************************************************************************)
(* C5  Get returns the current binding: the leaf last inserted at the key, *)
(* an EmptyLeaf for a key never inserted or deleted, never an error.       *)
(***************************************************************************)
C5_GetReturnsBinding ==
    rres # "Panic" =>
        \A k \in Keys :
            LET g == MSSMT_get(rdb, k)
            IN  g.ok /\ g.leaf = rmap[k]

(***************************************************************************)
(* C6  Sum conservation: root.sum is the sum of leaf.sum over the          *)
(* inhabited keys, in both engines.                                        *)
(***************************************************************************)
C6_SumConservation ==
    /\ rres # "Panic" => MSSMT_root(rdb).sum = SumOfMap(rmap, Len(KeySeq))
    /\ cres # "Panic" => CompactMSSMT_root(cdb).sum = SumOfMap(cmap, Len(KeySeq))

(***************************************************************************)
(* C7  SumOverflow is a no-op: an operation that returns SumOverflow       *)
(* leaves the root and the stored branches, leaves and compact leaves      *)
(* exactly as they were.                                                   *)
(***************************************************************************)
C7_SumOverflowNoOp ==
    [][/\ (rres' = "SumOverflow" /\ nops' # nops) => rdb' = rdb
       /\ (cres' = "SumOverflow" /\ nops' # nops) => cdb' = cdb]_vars

\* an insert into a tree that holds a leaf has just returned SumOverflow
C7_Witness ==
    /\ rres = "SumOverflow" /\ cres = "SumOverflow"
    /\ \E k \in Keys : Inhabited(rmap[k]) /\ Inhabited(cmap[k])
    /\ rdb.root # <<>> /\ cdb.root # <<>>

(***************************************************************************)
(* C8  Verification rejects what the tree does not hold: verifying a leaf  *)
(* whose hash differs from the hash of the leaf stored at the key, with    *)
(* the proof of that key, returns InvalidMerkleProof.                      *)
(***************************************************************************)
C8_VerificationRejects ==
    \A k \in Keys, leaf \in LeafInputs :
        /\ (rres # "Panic" /\ leaf.hash # rmap[k].hash
                /\ MSSMT_merkle_proof(rdb, k).ok) =>
              MSSMT_verify(rdb, k, leaf) = "InvalidMerkleProof"
        /\ (cres # "Panic" /\ leaf.hash # cmap[k].hash
                /\ CompactMSSMT_merkle_proof(cdb, k).ok) =>
              CompactMSSMT_verify(cdb, k, leaf) = "InvalidMerkleProof"

(***************************************************************************)
(* C9  No corruption errors through the public interface: insert and       *)
(* delete return Ok or SumOverflow, get and merkle_proof return Ok (the    *)
(* proofs of the compact engine are taken once it has written a root).     *)
(***************************************************************************)
C9_NoCorruptionErrors ==
    /\ rres \in {"None", "Ok", "SumOverflow"}
    /\ cres \in {"None", "Ok", "SumOverflow"}
    /\ \A k \in Keys :
          /\ MSSMT_get(rdb, k).ok
          /\ MSSMT_merkle_proof(rdb, k).ok
          /\ cdb.root # <<>> => CompactMSSMT_merkle_proof(cdb, k).ok

(***************************************************************************)
(* C10  No partial state on error: when an insert or delete returns an     *)
(* error, a store write error part-way included, the root is the root      *)
(* before the call and every key that was readable reads the same leaf.    *)
(***************************************************************************)
C10_NoPartialState ==
    [][/\ (rres' \notin {"Ok", "Panic"} /\ nops' # nops) =>
            /\ SameRoot(MSSMT_root(rdb'), MSSMT_root(rdb))
            /\ \A k \in Keys :
                  MSSMT_get(rdb, k).ok => MSSMT_get(rdb', k) = MSSMT_get(rdb, k)
       /\ (cres' \notin {"Ok", "Panic"} /\ nops' # nops) =>
            /\ SameRoot(CompactMSSMT_root(cdb'), CompactMSSMT_root(cdb))
            /\ \A k \in Keys :
                  LET before == CompactMSSMT_walk_down(cdb, k)
                      after == CompactMSSMT_walk_down(cdb', k)
                  IN  before.ok => (after.ok /\ after.leaf = before.leaf)]_vars

(***************************************************************************)
(* Helpers of the round trips: the store after an operation with result r  *)
(* when it succeeds.                                                       *)
(***************************************************************************)
Succeeds(r) == Outcome(r) = "Ok"

\* the root of the regular engine after insert(k, leaf); delete(k) on db
MSSMT_insert_delete(db, k, leaf) ==
    LET r1 == MSSMT_insert(db, k, leaf)
        db1 == StoreAfter(db, r1)
        r2 == MSSMT_delete(db1, k)
    IN  [inserted |-> Succeeds(r1), deleted |-> Succeeds(r2),
         root |-> MSSMT_root(StoreAfter(db1, r2))]

\* the same on the compact engine, the delete being the insert of an EmptyLeaf
CompactMSSMT_insert_delete(db, k, leaf) ==
    LET c1 == CompactMSSMT_insert(db, k, leaf)
        db1 == StoreAfter(db, c1)
        c2 == CompactMSSMT_insert(db1, k, EmptyLeaf_new)
    IN  [inserted |-> Succeeds(c1), deleted |-> Succeeds(c2),
         root |-> CompactMSSMT_root(StoreAfter(db1, c2))]

(***************************************************************************)
(* C11  Insert followed by delete is a round trip: in every reachable      *)
(* tree, for a key that holds no inhabited leaf and an inhabited leaf      *)
(* whose insert succeeds, insert(k, L) then delete(k) succeeds and         *)
(* restores root.hash and root.sum.                                        *)
(***************************************************************************)
C11_InsertDeleteRoundTrip ==
    \A k \in Keys, leaf \in LeafInputs :
        /\ (rres # "Panic" /\ ~Inhabited(rmap[k]) /\ Inhabited(leaf)) =>
              LET rt == MSSMT_insert_delete(rdb, k, leaf)
              IN  rt.inserted => (rt.deleted /\ SameRoot(rt.root, MSSMT_root(rdb)))
        /\ (cres # "Panic" /\ ~Inhabited(cmap[k]) /\ Inhabited(leaf)) =>
              LET rt == CompactMSSMT_insert_delete(cdb, k, leaf)
              IN  rt.inserted => (rt.deleted /\ SameRoot(rt.root, CompactMSSMT_root(cdb)))

\* position-wise agreement of two sibling sequences in hash and in sum
SameSiblings(p, q) ==
    /\ Len(p) = Len(q)
    /\ \A i \in 1..Len(p) : p[i].hash = q[i].hash /\ Node_sum(p[i]) = Node_sum(q[i])

(* C12: after every sequence of operations applied to both engines, and for *)
(* every key, merkle_proof succeeds on the regular and on the compact tree, *)
(* both return 8N siblings, and the two sequences agree in hash and in sum  *)
(* at every index.                                                          *)
C12_SameProofs ==
    (rres # "Panic" /\ cres # "Panic") =>
        \A k \in Keys :
            LET rp == MSSMT_merkle_proof(rdb, k)
                cp == CompactMSSMT_merkle_proof(cdb, k)
            IN  /\ rp.ok
                /\ cp.ok
                /\ Len(rp.nodes) = max_levels
                /\ SameSiblings(rp.nodes, cp.nodes)

\* position-wise agreement of two sibling sequences in hash
SameHashes(p, q) ==
    /\ Len(p) = Len(q)
    /\ \A i \in 1..Len(p) : p[i].hash = q[i].hash

(* C13: for every proof of 8N siblings, decompressing its compressed form   *)
(* succeeds and returns a proof of the same length with the same node hash  *)
(* at every position.                                                       *)
C13_CompressionRoundTrip ==
    (codec.stage = "Decompressed" /\ codec.from = "Compressed") =>
        /\ codec.result.ok
        /\ Len(codec.result.nodes) = max_levels
        /\ SameHashes(codec.result.nodes, codec.proof)

\* a proof with elided and with kept siblings has gone through compress and
\* decompress
C13_Witness ==
    /\ codec.stage = "Decompressed"
    /\ codec.from = "Compressed"
    /\ Len(codec.proof) = max_levels
    /\ Len(codec.compressed.nodes) \in 1..(max_levels - 1)
    /\ codec.result.ok

\* the root hash that walk_up computes from a leaf and a proof
Proof_root_hash(key, leaf, nodes) == walk_up(key, leaf, nodes).root.hash

\* two proofs verify against the same roots: whatever the key and the leaf,
\* against the root either of them leads to
SameVerdicts(p, q) ==
    \A key \in Keys, leaf \in LeafInputs :
        \A root_hash \in {Proof_root_hash(key, leaf, p), Proof_root_hash(key, leaf, q)} :
            (verify_merkle_proof(overflow_checks, key, leaf, p, root_hash) = "Ok")
            <=> (verify_merkle_proof(overflow_checks, key, leaf, q, root_hash) = "Ok")

\* what the receiver decoded is the compressed proof that was encoded
DecodedIsCompressed ==
    /\ ~codec.decoded.panic
    /\ codec.decoded.bits = codec.compressed.bits
    /\ SameSiblings(codec.decoded.nodes, codec.compressed.nodes)

(* C14: for every proof p of 8N siblings, decoding the encoding of its      *)
(* compressed form gives the same bits and the same node hashes and sums as *)
(* the compressed form; decompressing that gives a proof with p's node hash *)
(* at every position, which verifies against a root exactly when p does.    *)
C14_WireRoundTrip ==
    /\ codec.stage = "Decoded" => DecodedIsCompressed
    /\ (codec.stage = "Decompressed" /\ codec.from = "Decoded") =>
          /\ DecodedIsCompressed
          /\ codec.result.ok
          /\ SameHashes(codec.result.nodes, codec.proof)
          /\ SameVerdicts(codec.result.nodes, codec.proof)

\* every sibling that carries the hash of the empty subtree of its height
\* carries that subtree's sum, 0: the proofs that merkle_proof returns
EmptySiblingsSumZero(p) ==
    \A i \in 1..Len(p) :
        p[i].hash = empty_tree[HASH_SIZE * 8 - (i - 1)].hash => Node_sum(p[i]) = 0

(* C14, amended: the round trip through the wire keeps the bits, the node   *)
(* hashes and the node sums of the compressed proof and gives back p's node *)
(* hash at every position for every proof p of 8N siblings; the proof that  *)
(* comes back verifies against a root exactly when p does, provided that    *)
(* every sibling of p with the hash of an empty subtree has sum 0.          *)
C14_WireRoundTripEmptySumZero ==
    /\ codec.stage = "Decoded" => DecodedIsCompressed
    /\ (codec.stage = "Decompressed" /\ codec.from = "Decoded") =>
          /\ DecodedIsCompressed
          /\ codec.result.ok
          /\ SameHashes(codec.result.nodes, codec.proof)
          /\ EmptySiblingsSumZero(codec.proof) =>
                SameVerdicts(codec.result.nodes, codec.proof)

\* a proof with elided and with kept siblings, which verifies, has gone
\* through compress, encode, decode and decompress
C14_Witness ==
    /\ codec.stage = "Decompressed"
    /\ codec.from = "Decoded"
    /\ EmptySiblingsSumZero(codec.proof)
    /\ Len(codec.compressed.nodes) \in 1..(max_levels - 1)
    /\ Len(codec.encoded) = 2 + Len(codec.compressed.nodes) * (HASH_SIZE + SumBytes) + HASH_SIZE
    /\ codec.result.ok
    /\ verify_merkle_proof(overflow_checks, KeySeq[1], EmptyLeaf_new, codec.proof,
                           Proof_root_hash(KeySeq[1], EmptyLeaf_new, codec.result.nodes)) = "Ok"

\* the sums a caller can pass to Leaf::new
AllSums == 0..SumMax

(* C15: Leaf::new with an empty value yields the EmptyLeaf whatever the sum *)
(* passed; inserting that leaf under a key succeeds and leaves the root     *)
(* (hash and sum) that delete of the key leaves, and get of the key returns *)
(* the EmptyLeaf afterwards.                                                *)
C15_EmptyValueDeletes ==
    \A k \in Keys, sum \in AllSums :
        /\ Leaf_new(<<>>, sum) = EmptyLeaf_new
        /\ rres # "Panic" =>
              LET ri == MSSMT_insert(rdb, k, Leaf_new(<<>>, sum))
                  rd == MSSMT_delete(rdb, k)
              IN  /\ Succeeds(ri)
                  /\ Succeeds(rd)
                  /\ SameRoot(MSSMT_root(StoreAfter(rdb, ri)),
                              MSSMT_root(StoreAfter(rdb, rd)))
                  /\ MSSMT_get(StoreAfter(rdb, ri), k).ok
                  /\ MSSMT_get(StoreAfter(rdb, ri), k).leaf = EmptyLeaf_new

\* the store writes of MSSMT::new and CompactMSSMT::new, which only wrap
\* the store, and of root(), which takes &self and calls get_root_node
new_writes(db) == <<>>

root_writes(db) == <<>>

\* the store after constructing a handle over it and calling root()
StoreAfterRoot(db) ==
    ApplyWrites(db, new_writes(db) \o root_writes(db),
                Len(new_writes(db) \o root_writes(db)))

(* C16: while the root of a store was never written, root() of the regular  *)
(* and of the compact engine is empty_tree[0], with sum 0, and constructing *)
(* the handle and calling root() leave the store as it is.                  *)
C16_FreshRoot ==
    /\ rdb.root = <<>> =>
          /\ MSSMT_root(rdb) = empty_tree[0]
          /\ MSSMT_root(rdb).sum = 0
          /\ StoreAfterRoot(rdb) = rdb
    /\ cdb.root = <<>> =>
          /\ CompactMSSMT_root(cdb) = empty_tree[0]
          /\ CompactMSSMT_root(cdb).sum = 0
          /\ StoreAfterRoot(cdb) = cdb

\* two trees just constructed over new stores
C16_Witness ==
    /\ nops = 0
    /\ rdb = MemoryDb_new
    /\ cdb = MemoryDb_new
    /\ MSSMT_root(rdb).kind = "Branch"
    /\ CompactMSSMT_root(cdb).kind = "Branch"

RECURSIVE PathNode(_, _, _)
\* the node of the key's path at level l (the root at level 0, the leaf at
\* level 8N), as the store resolves it
PathNode(db, key, l) ==
    IF l = 0 THEN MSSMT_root(db)
    ELSE LET ch == get_children(db, l - 1, PathNode(db, key, l - 1).hash)
         IN  IF bit_index(l - 1, key) = 0 THEN ch.left ELSE ch.right

\* the sibling at level l: the other child of the path's node at level l
SiblingAtLevel(db, key, l) ==
    LET ch == get_children(db, l, PathNode(db, key, l).hash)
    IN  IF bit_index(l, key) = 0 THEN ch.right ELSE ch.left

\* the sibling that walk_up, having built parents, paired with the current
\* node at level l
ConsumedAtLevel(key, parents, l) ==
    IF bit_index(l, key) = 0 THEN parents[max_levels - l].right
    ELSE parents[max_levels - l].left

\* index l for level l: the root's end first
RootFirst == [l \in 0..(max_levels - 1) |-> l]

\* index 8N - 1 - l for level l: the leaf's end first
LeafFirst == [l \in 0..(max_levels - 1) |-> max_levels - 1 - l]

\* verification reads the sibling of level l at the index (0-based) at[l]
ConsumedBy(key, nodes, at) ==
    LET parents == walk_up(key, EmptyLeaf_new, nodes).parents
    IN  \A l \in 0..(max_levels - 1) :
            ConsumedAtLevel(key, parents, l) = nodes[at[l] + 1]

\* a proof of 8N siblings that holds the sibling of level l at the index
\* (0-based) at[l], and which verification reads in that order
ProofOrderedBy(db, key, nodes, at) ==
    /\ Len(nodes) = max_levels
    /\ \A l \in 0..(max_levels - 1) : nodes[at[l] + 1] = SiblingAtLevel(db, key, l)
    /\ ConsumedBy(key, nodes, at)

(* C17: a proof that merkle_proof returns has exactly 8N siblings, index 0  *)
(* being the sibling of the root's child on the key's path and index 8N - 1 *)
(* the sibling of the leaf, and verification takes proof[l] as the sibling  *)
(* at level l.                                                              *)
C17_ProofOrdering ==
    \A k \in Keys :
        LET rp == MSSMT_merkle_proof(rdb, k)
        IN  (rres # "Panic" /\ rp.ok) => ProofOrderedBy(rdb, k, rp.nodes, RootFirst)

(* C17, amended: a proof that merkle_proof returns has exactly 8N siblings, *)
(* index 0 being the sibling of the leaf and index 8N - 1 the sibling of    *)
(* the root's child on the key's path, and verification takes               *)
(* proof[8N - 1 - l] as the sibling at level l.                             *)
C17_ProofOrderingLeafFirst ==
    \A k \in Keys :
        LET rp == MSSMT_merkle_proof(rdb, k)
            cp == CompactMSSMT_merkle_proof(cdb, k)
        IN  /\ (rres # "Panic" /\ rp.ok) =>
                  ProofOrderedBy(rdb, k, rp.nodes, LeafFirst)
            /\ (cres # "Panic" /\ cp.ok) =>
                  (Len(cp.nodes) = max_levels /\ ConsumedBy(k, cp.nodes, LeafFirst))

\* the proof of a key whose sibling at level 0 is an inhabited subtree and
\* whose other siblings are empty
C17_Witness ==
    /\ rres = "Ok"
    /\ Inhabited(rmap[KeySeq[1]])
    /\ MSSMT_merkle_proof(rdb, KeySeq[2]).ok
    /\ MSSMT_merkle_proof(rdb, KeySeq[2]).nodes[max_levels].hash # empty_tree[1].hash
    /\ MSSMT_merkle_proof(rdb, KeySeq[2]).nodes[1].hash = empty_tree[max_levels].hash

\* the leaves a caller can insert into a tree of the given root: the empty
\* leaf and leaves of the smallest and the largest sum, of the largest sum
\* that the root's sum admits and of the next one
LeavesAround(root) ==
    {EmptyLeaf_new}
    \cup {NonEmptyLeaf_new(<<1>>, sum) :
             sum \in {1, SumMax, SumMax - root.sum, SumMax - root.sum + 1} \cap AllSums}

\* checked_add of the leaf's sum and the root's sum is None
checked_add_is_none(root, leaf) == leaf.sum + root.sum > SumMax

(* C18: insert(key, leaf) returns SumOverflow exactly when leaf.sum plus    *)
(* the sum of the root held before the operation exceeds the largest Sum,   *)
(* whether or not the key already holds a leaf; the regular and the compact *)
(* engine apply the same condition.                                         *)
C18_OverflowCondition ==
    \A k \in Keys :
        /\ rres # "Panic" =>
              \A leaf \in LeavesAround(MSSMT_root(rdb)) :
                  (MSSMT_insert(rdb, k, leaf).res = "SumOverflow")
                  <=> checked_add_is_none(MSSMT_root(rdb), leaf)
        /\ cres # "Panic" =>
              \A leaf \in LeavesAround(CompactMSSMT_root(cdb)) :
                  (CompactMSSMT_insert(cdb, k, leaf).res = "SumOverflow")
                  <=> checked_add_is_none(CompactMSSMT_root(cdb), leaf)

\* a key holds a leaf of the largest sum and replacing it by a leaf of sum 1
\* is refused by both engines
C18_Witness ==
    /\ rres = "Ok"
    /\ cres = "Ok"
    /\ rmap[KeySeq[1]].sum = SumMax
    /\ MSSMT_root(rdb).sum = SumMax
    /\ CompactMSSMT_root(cdb).sum = SumMax
    /\ MSSMT_insert(rdb, KeySeq[1], NonEmptyLeaf_new(<<1>>, 1)).res = "SumOverflow"
    /\ CompactMSSMT_insert(cdb, KeySeq[1], NonEmptyLeaf_new(<<1>>, 1)).res = "SumOverflow"

\* the store reads of MSSMT::insert up to the end of walk_down: root() for
\* the overflow test and again in walk_down, then get_children per level
MSSMT_insert_reads(db, key) ==
    <<Write("get_root_node", <<>>), Write("get_root_node", <<>>)>>
    \o [i \in 1..Len(MSSMT_walk_down(db, key).parents) |->
           Write("get_children", [hash |-> MSSMT_walk_down(db, key).parents[i]])]

\* the store calls of a successful MSSMT::insert, in order
MSSMT_insert_calls(db, key, leaf) ==
    MSSMT_insert_reads(db, key) \o MSSMT_insert(db, key, leaf).writes

\* the place of a store call in the order: reads, branch inserts, branch
\* deletes, the leaf, the root
CallPhase(op) ==
    CASE op \in {"get_root_node", "get_children"} -> 0
      [] op = "insert_branch" -> 1
      [] op = "delete_branch" -> 2
      [] op = "insert_leaf" -> 3
      [] op = "update_root" -> 4
      [] OTHER -> 5

\* the number of calls of an operation in a sequence of store calls
CountCalls(calls, op) == Cardinality({i \in 1..Len(calls) : calls[i].op = op})

\* reads, then insert_branch, then delete_branch, then one insert_leaf, then
\* one update_root at the end
RegularCallOrder(calls) ==
    /\ \A i \in 1..Len(calls) : CallPhase(calls[i].op) <= 4
    /\ \A i, j \in 1..Len(calls) :
          i < j => CallPhase(calls[i].op) <= CallPhase(calls[j].op)
    /\ CountCalls(calls, "get_children") = max_levels
    /\ CountCalls(calls, "insert_leaf") = 1
    /\ CountCalls(calls, "update_root") = 1
    /\ calls[Len(calls)].op = "update_root"

(* C19: in every successful insert and delete of the regular engine the     *)
(* store calls come in this order: the get_children reads of walk_down,     *)
(* every scheduled insert_branch, every scheduled delete_branch, one        *)
(* insert_leaf, and one update_root as the last call.                       *)
C19_RegularWriteOrder ==
    rres # "Panic" =>
        \A k \in Keys :
            /\ \A leaf \in LeafInputs :
                  Succeeds(MSSMT_insert(rdb, k, leaf)) =>
                      RegularCallOrder(MSSMT_insert_calls(rdb, k, leaf))
            /\ Succeeds(MSSMT_delete(rdb, k)) =>
                  RegularCallOrder(MSSMT_insert_reads(rdb, k)
                                   \o MSSMT_delete(rdb, k).writes)

\* two keys are held, and the insert under a third schedules branches to
\* insert and branches to delete
C19_Witness ==
    /\ rres = "Ok"
    /\ Inhabited(rmap[KeySeq[1]])
    /\ Inhabited(rmap[KeySeq[2]])
    /\ Succeeds(MSSMT_insert(rdb, KeySeq[3], NonEmptyLeaf_new(<<1>>, 1)))
    /\ CountCalls(MSSMT_insert_calls(rdb, KeySeq[3], NonEmptyLeaf_new(<<1>>, 1)),
                  "insert_branch") > 1
    /\ CountCalls(MSSMT_insert_calls(rdb, KeySeq[3], NonEmptyLeaf_new(<<1>>, 1)),
                  "delete_branch") > 1

\* the store writes of the compact engine other than update_root
CompactWrites ==
    {"insert_leaf", "insert_compact_leaf", "insert_branch",
     "delete_leaf", "delete_compact_leaf", "delete_branch"}

\* one update_root, after every other write
RootCommittedLast(writes) ==
    /\ CountCalls(writes, "update_root") = 1
    /\ writes[Len(writes)].op = "update_root"
    /\ \A i \in 1..(Len(writes) - 1) : writes[i].op \in CompactWrites

(* C20: a successful insert of the compact engine calls update_root exactly *)
(* once, after every other store write of that insert, and an insert that   *)
(* returns an error does not call update_root.                              *)
C20_CompactRootCommit ==
    cres # "Panic" =>
        \A k \in Keys, leaf \in LeafInputs :
            /\ Succeeds(CompactMSSMT_insert(cdb, k, leaf)) =>
                  RootCommittedLast(CompactMSSMT_insert(cdb, k, leaf).writes)
            /\ CompactMSSMT_insert(cdb, k, leaf).res # "Ok" =>
                  CountCalls(CompactMSSMT_insert(cdb, k, leaf).writes, "update_root") = 0

\* the tree holds a leaf of the largest sum: replacing it by the empty leaf
\* succeeds with writes before update_root, and an insert of a leaf of sum
\* 1 returns an error
C20_Witness ==
    /\ cres = "Ok"
    /\ cmap[KeySeq[1]].sum = SumMax
    /\ Succeeds(CompactMSSMT_insert(cdb, KeySeq[1], EmptyLeaf_new))
    /\ Len(CompactMSSMT_insert(cdb, KeySeq[1], EmptyLeaf_new).writes) > 2
    /\ CompactMSSMT_insert(cdb, KeySeq[2], NonEmptyLeaf_new(<<1>>, 1)).res = "SumOverflow"

\* no node: the position is not reachable from the root
NoNode == [kind |-> "None", hash |-> <<>>]

RECURSIVE CompactPathNode(_, _, _)
\* the node the compact store holds at level l of the key's path (the root
\* at level 0), reached through non-empty branches only
CompactPathNode(db, key, l) ==
    IF l = 0 THEN CompactMSSMT_root(db)
    ELSE LET parent == CompactPathNode(db, key, l - 1) IN
         IF parent.kind # "Branch" THEN NoNode
         ELSE IF parent.hash = empty_tree[l - 1].hash THEN NoNode
         ELSE LET ch == get_children(db, l - 1, parent.hash) IN
              IF ~ch.ok THEN NoNode
              ELSE step_order(l - 1, key, ch.left, ch.right).next

\* the keys that hold a leaf below the position at level l of the key's path
InhabitedBelow(map, key, l) ==
    {k \in Keys : /\ Inhabited(map[k])
                  /\ \A j \in 0..(l - 1) : bit_index(j, k) = bit_index(j, key)}

\* the node at a position agrees with the number n of inhabited leaves below
CompactedFor(node, l, n) ==
    /\ (n = 1) <=> (node.kind = "Compact")
    /\ n >= 2 => node.kind = "Branch"
    /\ n = 0 => node = empty_tree[l]

\* the store holds no compact leaf that wraps an EmptyLeaf and no branch
\* with the hash of an empty subtree
NoEmptyRecords(db) ==
    /\ \A h \in DOMAIN db.compact_leaves : Inhabited(db.compact_leaves[h].leaf)
    /\ \A h \in DOMAIN db.branches, l \in 0..max_levels : h # empty_tree[l].hash

(* C21: in every state of the compact engine reached by inserts and         *)
(* deletes, a position reachable from the root holds a CompactLeaf iff      *)
(* exactly one inhabited leaf lies below it, a Branch when two or more do,  *)
(* and the empty-tree node when none does; the store holds no CompactLeaf   *)
(* wrapping an EmptyLeaf and no Branch for an empty subtree.                *)
C21_CompactionUnique ==
    cres # "Panic" =>
        /\ NoEmptyRecords(cdb)
        /\ \A key \in Keys, l \in 1..max_levels :
              CompactPathNode(cdb, key, l).kind # "None" =>
                  CompactedFor(CompactPathNode(cdb, key, l), l,
                               Cardinality(InhabitedBelow(cmap, key, l)))

\* the regular store that holds the one leaf under the one key
MSSMT_single(key, leaf) ==
    ApplyWrites(MemoryDb_new, MSSMT_insert(MemoryDb_new, key, leaf).writes,
                Len(MSSMT_insert(MemoryDb_new, key, leaf).writes))

\* a compact leaf made for level h expands, where walk-down uses it, to a
\* node of the same hash and sum, which are those of the regular engine's
\* subtree at level h over the single leaf
ExpansionPreserves(h, key, leaf) ==
    LET compact == CompactLeaf_new(h, key, leaf)
        expanded == CompactLeaf_extract(compact, h - 1)
        regular == PathNode(MSSMT_single(key, leaf), key, h)
    IN  /\ expanded.hash = compact.hash
        /\ Node_sum(expanded) = Node_sum(compact)
        /\ regular.hash = compact.hash
        /\ Node_sum(regular) = Node_sum(compact)

\* the same for every level, key and leaf
ExpansionPreservesAll ==
    \A h \in 1..max_levels, key \in Keys, leaf \in LeafInputs :
        ExpansionPreserves(h, key, leaf)

(* C22: for every level h from 1 to 8N, key and leaf, the hash stored by    *)
(* CompactLeaf::new(h, key, leaf) is the hash of the node that extract      *)
(* returns for the parent level h - 1 and the hash of the regular engine's  *)
(* level-h subtree holding that single leaf; the sums agree as well.  The   *)
(* compact leaves in the store expand to their own hash.                    *)
C22_ExpansionPreservesHash ==
    /\ ExpansionPreservesAll
    /\ \A hash \in DOMAIN cdb.compact_leaves, h \in 1..max_levels :
          CompactLeaf_new(h, cdb.compact_leaves[hash].key,
                          cdb.compact_leaves[hash].leaf).hash = hash
          => CompactLeaf_extract(cdb.compact_leaves[hash], h - 1).hash = hash

\* the store holds the compact leaves of two inhabited keys, made below the
\* root, which walk-down expands on the way to their leaves
C22_Witness ==
    /\ cres = "Ok"
    /\ Inhabited(cmap[KeySeq[1]])
    /\ Inhabited(cmap[KeySeq[2]])
    /\ CompactPathNode(cdb, KeySeq[1], 1).kind = "Compact"
    /\ CompactPathNode(cdb, KeySeq[2], 1).kind = "Compact"
    /\ CompactMSSMT_walk_down(cdb, KeySeq[1]).ok
    /\ CompactMSSMT_walk_down(cdb, KeySeq[1]).leaf = cmap[KeySeq[1]]

\* the inhabited leaves given to merge
MergeLeaves ==
    {NonEmptyLeaf_new(<<1>>, 1), NonEmptyLeaf_new(<<2>>, 2), NonEmptyLeaf_new(<<1>>, SumMax)}

\* the regular store that holds two leaves under two keys
MSSMT_pair(key1, leaf1, key2, leaf2) ==
    ApplyWrites(MSSMT_single(key1, leaf1),
                MSSMT_insert(MSSMT_single(key1, leaf1), key2, leaf2).writes,
                Len(MSSMT_insert(MSSMT_single(key1, leaf1), key2, leaf2).writes))

RECURSIVE MergedShape(_, _, _, _, _, _, _)
\* node, at level k, is what merge builds down to level i: a branch whose
\* other child is empty_tree[k + 1] while k < i, and at level i the branch
\* over the two compact leaves of level i + 1, ordered by their bit
MergedShape(node, k, i, key1, leaf1, key2, leaf2) ==
    /\ node.kind = "Branch"
    /\ IF k < i
       THEN /\ step_order(k, key1, node.left, node.right).sibling = empty_tree[k + 1]
            /\ MergedShape(step_order(k, key1, node.left, node.right).next,
                           k + 1, i, key1, leaf1, key2, leaf2)
       ELSE /\ bit_index(i, key1) # bit_index(i, key2)
            /\ step_order(i, key1, node.left, node.right).next
                 = CompactLeaf_new(i + 1, key1, leaf1)
            /\ step_order(i, key2, node.left, node.right).next
                 = CompactLeaf_new(i + 1, key2, leaf2)

\* merge at level h builds that shape, with the hash and the sum of the
\* regular engine's subtree at level h over the two leaves
MergeBuilds(h, key1, leaf1, key2, leaf2) ==
    LET merged == CompactMSSMT_merge(h, key1, leaf1, key2, leaf2).branch
        regular == PathNode(MSSMT_pair(key1, leaf1, key2, leaf2), key1, h)
    IN  /\ MergedShape(merged, h, common_prefix(key1, key2, h), key1, leaf1, key2, leaf2)
        /\ merged.hash = regular.hash
        /\ Node_sum(merged) = Node_sum(regular)

\* the same for every pair of distinct keys, every level of their common
\* prefix and every pair of leaves whose sums the tree can hold
MergeBuildsAll ==
    \A key1 \in Keys, key2 \in Keys, leaf1 \in MergeLeaves, leaf2 \in MergeLeaves :
        (key1 # key2 /\ leaf1.sum + leaf2.sum <= SumMax) =>
            \A h \in 0..common_prefix(key1, key2, 0) :
                MergeBuilds(h, key1, leaf1, key2, leaf2)

(* C23: for distinct keys that agree on the bits before level h, merge      *)
(* returns the branch of level h over two CompactLeaves of level i + 1      *)
(* under a branch at level i, the first level from h on at which the keys   *)
(* differ, ordered by their bit at level i and wrapped at every level from  *)
(* h to i - 1 by a branch whose other child is the empty subtree; its hash  *)
(* and sum are those of the regular engine's subtree over the two leaves.   *)
(* So it is for the leaves that two keys of the tree hold.                  *)
C23_MergeBuildsSubtree ==
    /\ MergeBuildsAll
    /\ \A key1 \in Keys, key2 \in Keys :
          (/\ key1 # key2
           /\ Inhabited(cmap[key1])
           /\ Inhabited(cmap[key2])
           /\ cmap[key1].sum + cmap[key2].sum <= SumMax)
          => MergedShape(CompactMSSMT_merge(0, key1, cmap[key1], key2, cmap[key2]).branch,
                         0, common_prefix(key1, key2, 0),
                         key1, cmap[key1], key2, cmap[key2])

\* two keys that agree on all bits but the last were merged below the root
C23_Witness ==
    /\ cres = "Ok"
    /\ nops = 2
    /\ InhabitedBelow(cmap, KeySeq[1], 1) = {KeySeq[1], KeySeq[3]}
    /\ common_prefix(KeySeq[1], KeySeq[3], 0) = max_levels - 1
    /\ CompactPathNode(cdb, KeySeq[1], 1).kind = "Branch"
    /\ CompactPathNode(cdb, KeySeq[1], 1).hash
         = CompactMSSMT_merge(1, KeySeq[1], cmap[KeySeq[1]],
                              KeySeq[3], cmap[KeySeq[3]]).branch.hash

\* two keys whose bits differ only at the last level
DiffersOnlyAtLast(key1, key2) ==
    key1 # key2 /\ common_prefix(key1, key2, 0) = max_levels - 1

\* the pairs of such keys that the tree holds, both inhabited
DeepestPairs(map) ==
    {p \in Keys \X Keys :
        DiffersOnlyAtLast(p[1], p[2]) /\ Inhabited(map[p[1]]) /\ Inhabited(map[p[2]])}

\* the branch of the last level over the two keys holds two compact leaves
\* of level 8N whose hashes are the hashes of their leaves
DeepestBranch(db, map, key1, key2) ==
    LET node == CompactPathNode(db, key1, max_levels - 1) IN
    /\ node.kind = "Branch"
    /\ get_children(db, max_levels - 1, node.hash).ok
    /\ LET ch == get_children(db, max_levels - 1, node.hash)
           n1 == step_order(max_levels - 1, key1, ch.left, ch.right).next
           n2 == step_order(max_levels - 1, key2, ch.left, ch.right).next
       IN  /\ n1.hash = map[key1].hash
           /\ n2.hash = map[key2].hash
           /\ node.hash = CompactMSSMT_merge(max_levels - 1, key1, map[key1],
                                             key2, map[key2]).branch.hash

\* the sum of the tree once key holds leaf
SumWith(map, key, leaf) == SumOfMap([map EXCEPT ![key] = leaf], Len(KeySeq))

\* a later insert or replace of either key, within the sum the tree can hold,
\* and a later delete of either key succeed
LaterOpsSucceed(db, map, key) ==
    /\ \A leaf \in LeafInputs :
          SumWith(map, key, leaf) <= SumMax => Succeeds(CompactMSSMT_insert(db, key, leaf))
    /\ Succeeds(CompactMSSMT_delete(db, key))

(* C24: when the compact tree holds two keys that differ only in the bit of *)
(* the last level, the branch of that level holds two compact leaves of     *)
(* level 8N with the hashes of their leaves, the root is the regular        *)
(* engine's root, and a later insert, replace or delete of either key       *)
(* succeeds.                                                                *)
C24_DeepestMerge ==
    (cres = "Ok" /\ rres = "Ok") =>
        \A p \in DeepestPairs(cmap) :
            /\ DeepestBranch(cdb, cmap, p[1], p[2])
            /\ SameRoot(CompactMSSMT_root(cdb), MSSMT_root(rdb))
            /\ LaterOpsSucceed(cdb, cmap, p[1])

\* the branch table holds no branch under the hash of an empty subtree
NoEmptyBranches(db) ==
    \A h \in DOMAIN db.branches, l \in 0..max_levels : h # empty_tree[l].hash

\* after, the store that delete(key) leaves of before: every branch of the
\* key's path whose subtree holds no inhabited leaf any more is gone from
\* the branch table
EmptiedBranchesRemoved(before, after, map, key) ==
    \A l \in 0..(max_levels - 1) :
        InhabitedBelow([map EXCEPT ![key] = EmptyLeaf_new], key, l) = {} =>
            PathNode(before, key, l).hash \notin DOMAIN after.branches

(* C25: after a successful delete of a key by the regular engine, every     *)
(* branch of the key's path whose subtree became wholly empty is absent     *)
(* from the store, no stored branch has the hash of an empty subtree, and   *)
(* deleting the last inhabited key leaves the branch table empty.           *)
C25_DeleteCollapses ==
    rres # "Panic" =>
        \A key \in Keys :
            LET rd == MSSMT_delete(rdb, key)
                after == StoreAfter(rdb, rd)
            IN  Succeeds(rd) =>
                  /\ EmptiedBranchesRemoved(rdb, after, rmap, key)
                  /\ NoEmptyBranches(after)
                  /\ (InhabitedBelow(rmap, key, 0) \subseteq {key}
                        => after.branches = <<>>)

\* the tree holds one inhabited key, its path is stored, and deleting the
\* key succeeds
C25_Witness ==
    /\ rres = "Ok"
    /\ InhabitedBelow(rmap, KeySeq[1], 0) = {KeySeq[1]}
    /\ Cardinality(DOMAIN rdb.branches) = max_levels
    /\ Succeeds(MSSMT_delete(rdb, KeySeq[1]))
    /\ StoreAfter(rdb, MSSMT_delete(rdb, KeySeq[1])).branches = <<>>

\* the branch records of a store
BranchRecords(db) == {db.branches[h] : h \in DOMAIN db.branches}

\* the compact-leaf records of a store
CompactLeafRecords(db) == {db.compact_leaves[h] : h \in DOMAIN db.compact_leaves}

\* the regular store holds the branch records of the store that the inserts
\* of the map's inhabited keys into a fresh tree leave
RegularRecordsOfMap ==
    LET rep == MSSMT_replay(rmap, Len(KeySeq))
    IN  rep.ok => BranchRecords(rdb) = BranchRecords(rep.db)

\* the same for the branch and the compact-leaf records of the compact store
CompactRecordsOfMap ==
    LET rep == CompactMSSMT_replay(cmap, Len(KeySeq))
    IN  rep.ok => /\ BranchRecords(cdb) = BranchRecords(rep.db)
                  /\ CompactLeafRecords(cdb) = CompactLeafRecords(rep.db)

(* C26: for each engine, the branch records (and the compact-leaf records   *)
(* of the compact engine) that the store holds after a sequence of          *)
(* successful operations depend only on the final map: they are those held  *)
(* after the inhabited keys of the map are inserted once each into a fresh  *)
(* tree.                                                                    *)
C26_StoredTreeHistoryIndependent ==
    /\ rres # "Panic" => RegularRecordsOfMap
    /\ cres # "Panic" => CompactRecordsOfMap

\* x >> n on an unsigned byte
RECURSIVE shr(_, _)
shr(x, n) == IF n = 0 THEN x ELSE shr(x \div 2, n - 1)

\* (key[level div 8] >> (level mod 8)) & 1
ShiftAndMask(level, key) == shr(key[(level \div 8) + 1], level % 8) % 2

\* every key of HASH_SIZE bytes
AllKeys == [1..HASH_SIZE -> 0..255]

\* the child that a bit selects (left on 0, right on 1)
Side(bit, left, right) == IF bit = 0 THEN left ELSE right

\* the siblings of a path through the empty tree, as walk_up indexes them
EmptySiblings == [j \in 1..max_levels |-> empty_tree[max_levels - j + 1]]

\* walk_up puts the node it comes from on the side of the key's bit and the
\* sibling on the other side
WalkUpTakesSide(key, leaf) ==
    LET wu == walk_up(key, leaf, EmptySiblings) IN
    \A i \in 0..(max_levels - 1) :
        LET parent == wu.parents[max_levels - i]
            current == IF i = max_levels - 1 THEN leaf ELSE wu.parents[max_levels - i - 1]
        IN  /\ Side(ShiftAndMask(i, key), parent.left, parent.right) = current
            /\ Side(ShiftAndMask(i, key), parent.right, parent.left) = empty_tree[i + 1]

\* CompactLeaf::new does the same at every level from height down
CompactLeafTakesSide(key, leaf) ==
    \A h \in 0..(max_levels - 1) :
        LET node == CompactLeaf_new_from(h, key, max_levels - 1, leaf)
        IN  /\ Side(ShiftAndMask(h, key), node.left, node.right)
                 = CompactLeaf_new_from(h + 1, key, max_levels - 1, leaf)
            /\ Side(ShiftAndMask(h, key), node.right, node.left) = empty_tree[h + 1]

\* merge puts each of the two compact leaves on the side of its key's bit
MergeTakesSide(key1, leaf1, key2, leaf2) ==
    LET i == common_prefix(key1, key2, 0)
        merged == CompactMSSMT_merge(i, key1, leaf1, key2, leaf2).branch
    IN  /\ Side(ShiftAndMask(i, key1), merged.left, merged.right)
             = CompactLeaf_new(i + 1, key1, leaf1)
        /\ Side(ShiftAndMask(i, key2), merged.left, merged.right)
             = CompactLeaf_new(i + 1, key2, leaf2)

\* bit_index and the three constructions, for all their inputs
BitAddressingAll ==
    /\ \A key \in AllKeys, level \in 0..(max_levels - 1) :
          bit_index(level, key) = ShiftAndMask(level, key)
    /\ \A key \in Keys, leaf \in LeafInputs :
          WalkUpTakesSide(key, leaf) /\ CompactLeafTakesSide(key, leaf)
    /\ \A key1 \in Keys, key2 \in Keys :
          key1 # key2 =>
              MergeTakesSide(key1, NonEmptyLeaf_new(<<1>>, 1), key2, NonEmptyLeaf_new(<<2>>, 2))

\* the regular walk-down goes, at every level, to the child on the side of
\* the key's bit and reports the other child as the sibling
WalkDownTakesSide(db, key) ==
    LET wd == MSSMT_walk_down(db, key) IN
    wd.ok =>
        \A l \in 0..(max_levels - 1) :
            LET ch == get_children(db, l, wd.parents[l + 1])
                next == IF l = max_levels - 1 THEN wd.leaf.hash ELSE wd.parents[l + 2]
            IN  /\ Side(ShiftAndMask(l, key), ch.left, ch.right).hash = next
                /\ Side(ShiftAndMask(l, key), ch.right, ch.left) = wd.siblings[l + 1]

\* the compact walk-down does so below the root
CompactWalkDownTakesSide(db, key) ==
    LET wd == CompactMSSMT_walk_down(db, key) IN
    wd.ok =>
        LET ch == get_children(db, 0, CompactMSSMT_root(db).hash)
        IN  Side(ShiftAndMask(0, key), ch.right, ch.left).hash = wd.siblings[1].hash

PathOf(key) == [l \in 0..(max_levels - 1) |-> bit_index(l, key)]

\* the value of the eight bits that the levels 8b .. 8b + 7 consume, the
\* bit of level 8b + j weighing weight[j]
RECURSIVE ByteOfPath(_, _, _, _)
ByteOfPath(path, b, weight, j) ==
    IF j < 0 THEN 0
    ELSE path[8 * b + j] * weight[j] + ByteOfPath(path, b, weight, j - 1)

\* least significant bit first: the bit of level 8b + j weighs 2^j
LsbFirst == [j \in 0..7 |-> Pow2(j)]

\* most significant bit first: the bit of level 8b + j weighs 2^(7 - j)
MsbFirst == [j \in 0..7 |-> Pow2(7 - j)]

\* every byte of every key is the value of the eight bits of its levels
PathReads(weight) ==
    \A key \in AllKeys, b \in 0..(HASH_SIZE - 1) :
        key[b + 1] = ByteOfPath(PathOf(key), b, weight, 7)

\* the two readings, for all keys
PathReadsLsbFirst == PathReads(LsbFirst)

PathReadsMsbFirst == PathReads(MsbFirst)

\* the regular walk-down of a key leaves the root by the child that bit
\* selects
FirstStepBy(db, key, bit) ==
    LET wd == MSSMT_walk_down(db, key) IN
    wd.ok =>
        LET ch == get_children(db, 0, wd.parents[1])
        IN  /\ Side(bit, ch.left, ch.right).hash = wd.parents[2]
            /\ Side(bit, ch.right, ch.left) = wd.siblings[1]

(* C28 as stated: the path of a key is its 8N bits read most significant    *)
(* bit first; the bit consumed at level 0 is the most significant bit of    *)
(* key byte 0, and within each byte successive levels go from the most      *)
(* significant to the least significant bit.                                *)
C28_PathMsbFirst ==
    /\ PathReadsMsbFirst
    /\ rres # "Panic" => \A key \in Keys : FirstStepBy(rdb, key, key[1] \div 128)

(* C28 amended: the path of a key reads each byte least significant bit     *)
(* first, bytes in order; the bit consumed at level 0 is the least          *)
(* significant bit of key byte 0, and within each byte successive levels    *)
(* go from the least significant to the most significant bit.               *)
C28_PathLsbFirst ==
    /\ PathReadsLsbFirst
    /\ rres # "Panic" => \A key \in Keys : FirstStepBy(rdb, key, key[1] % 2)

\* the tree holds the keys 1 and 128, which leave the root by its right and
\* by its left child
C28_Witness ==
    /\ rres = "Ok"
    /\ Inhabited(rmap[<<1>>]) /\ Inhabited(rmap[<<128>>])
    /\ MSSMT_walk_down(rdb, <<1>>).ok
    /\ MSSMT_walk_down(rdb, <<128>>).ok
    /\ PathNode(rdb, <<1>>, 1).hash = MSSMT_root(rdb).right.hash
    /\ PathNode(rdb, <<128>>, 1).hash = MSSMT_root(rdb).left.hash
    /\ MSSMT_root(rdb).left.hash # MSSMT_root(rdb).right.hash

\* the proof has been compressed
Compressed ==
    \/ codec.stage \in {"Compressed", "Encoded", "Decoded"}
    \/ codec.stage = "Decompressed" /\ codec.from \in {"Compressed", "Decoded"}

\* the number of clear bits among the first n bits
ZerosUpTo(bits, n) == Cardinality({i \in 1..n : ~bits[i]})

\* c is proof with the bitmap of its empty siblings: bit l is set when
\* sibling l has the hash of the empty subtree of level 8N - l, and the
\* other siblings are listed in order
BitmapOf(proof, c) ==
    /\ Len(c.bits) = Len(proof)
    /\ \A l \in 0..(Len(proof) - 1) :
          /\ c.bits[l + 1] <=> (proof[l + 1].hash = empty_tree[HASH_SIZE * 8 - l].hash)
          /\ ~c.bits[l + 1] =>
                /\ ZerosUpTo(c.bits, l + 1) <= Len(c.nodes)
                /\ c.nodes[ZerosUpTo(c.bits, l + 1)] = proof[l + 1]

(* C29: compress sets bit l exactly when sibling l has the hash of the      *)
(* empty subtree of level 8N - l, and then lists no node for it; otherwise  *)
(* it clears the bit and appends the sibling to the node list.  The bitmap  *)
(* has 8N bits and as many clear bits as there are listed nodes.            *)
C29_CompressionBitmap ==
    Compressed =>
        /\ BitmapOf(codec.proof, codec.compressed)
        /\ Len(codec.compressed.bits) = HASH_SIZE * 8
        /\ count_zeros(codec.compressed.bits) = Len(codec.compressed.nodes)

\* a compressed proof with elided siblings, one of them a computed node with
\* the empty subtree's hash, and with listed siblings
C29_Witness ==
    /\ codec.stage = "Compressed"
    /\ codec.proof[1].kind = "Computed"
    /\ codec.compressed.bits[1]
    /\ codec.compressed.bits[2]
    /\ ~codec.compressed.bits[3]
    /\ Len(codec.compressed.nodes) = 2

\* r is the proof with one node per bit of c: the empty subtree of level
\* 8N - l where bit l is set, and the next listed node where it is clear
ExpandedFrom(c, r) ==
    /\ r.ok
    /\ Len(r.nodes) = Len(c.bits)
    /\ \A l \in 0..(Len(c.bits) - 1) :
          r.nodes[l + 1] = IF c.bits[l + 1]
                           THEN empty_tree[HASH_SIZE * 8 - l]
                           ELSE c.nodes[ZerosUpTo(c.bits, l + 1)]

(* C30: decompress returns InvalidMerkleProof whenever the number of clear  *)
(* bits differs from the number of listed nodes; otherwise it returns a     *)
(* proof with one node per bit, the empty subtree of level 8N - l where     *)
(* bit l is set and the next listed node where it is clear.                 *)
C30_MalformedCompressedProof ==
    (codec.stage = "Decompressed" /\ codec.from = "Received") =>
        IF count_zeros(codec.compressed.bits) # Len(codec.compressed.nodes)
        THEN ~codec.result.ok /\ codec.result.err = "InvalidMerkleProof"
        ELSE ExpandedFrom(codec.compressed, codec.result)

\* the hashes a lookup can be made with: the keys of the three tables, the
\* hashes of the children of the stored branches, the hashes of the empty
\* subtrees and the hash of a leaf that was never stored
LookupHashes(db) ==
    DOMAIN db.branches \cup DOMAIN db.leaves \cup DOMAIN db.compact_leaves
    \cup {db.branches[h].left.hash : h \in DOMAIN db.branches}
    \cup {db.branches[h].right.hash : h \in DOMAIN db.branches}
    \cup {empty_tree[l].hash : l \in 0..max_levels}
    \cup {NonEmptyLeaf_new(<<2>>, 2).hash}

\* what the claim says get_children(level, h) returns on store db
LookupContract(db, level, h) ==
    LET r == get_children(db, level, h) IN
    IF h = empty_tree[level].hash
    THEN r.ok /\ r.left = empty_tree[level + 1] /\ r.right = empty_tree[level + 1]
    ELSE IF h \notin DOMAIN db.branches \cup DOMAIN db.leaves \cup DOMAIN db.compact_leaves
    THEN ~r.ok /\ r.err = "NodeNotFound"
    ELSE IF h \notin DOMAIN db.branches
    THEN ~r.ok /\ r.err = "ExpectedBranch"
    ELSE /\ r.ok
         /\ r.left.hash = db.branches[h].left.hash
         /\ r.right.hash = db.branches[h].right.hash

\* h is not looked up at a level other than its own: a stored branch with an
\* empty subtree for a child has the empty subtree of level + 1
LookedUpAtItsLevel(db, level, h) ==
    h \in DOMAIN db.branches =>
        \A c \in {db.branches[h].left.hash, db.branches[h].right.hash} :
            c \in {empty_tree[l].hash : l \in 0..max_levels} => c = empty_tree[level + 1].hash

\* the contract on a store, for every level that holds branches
LookupContractOn(db) ==
    \A level \in 0..(max_levels - 1), h \in LookupHashes(db) :
        LookedUpAtItsLevel(db, level, h) => LookupContract(db, level, h)

(* C31: get_children(level, h) returns the two empty subtrees of level + 1  *)
(* when h is the hash of the empty subtree of that level, whatever the      *)
(* store holds; NodeNotFound when h is not that hash and no record is keyed *)
(* by h; ExpectedBranch when h resolves to a leaf or a compact leaf; and    *)
(* otherwise the two children of the stored branch, each resolved by its    *)
(* own hash.                                                                *)
C31_StoreLookupContract ==
    /\ rres # "Panic" => LookupContractOn(rdb)
    /\ cres # "Panic" => LookupContractOn(cdb)

\* the verdict of verification is an error: neither an acceptance nor an
\* abort
IsError(verdict) == verdict \notin {"Ok", "Panic"}

\* verification of leaf under key with siblings nodes, whose sums added along
\* the path exceed the width of a sum, ends with an error against the root
\* hash that the wrapped sums lead to and against the empty tree's
OverflowingProofRejected(key, leaf, nodes) ==
    walk_up(key, leaf, nodes).overflow =>
        \A root_hash \in {Proof_root_hash(key, leaf, nodes), empty_tree[0].hash} :
            IsError(verify_merkle_proof(overflow_checks, key, leaf, nodes, root_hash))

(* C32: verification of a proof performs no unchecked addition: for a       *)
(* proof, such as one decoded from bytes, whose sibling sums added along    *)
(* the path to the leaf's sum exceed the largest sum, it returns an error   *)
(* and neither wraps the sum nor aborts.                                    *)
C32_CheckedVerification ==
    (codec.stage = "Decompressed" /\ codec.from = "Decoded" /\ codec.result.ok) =>
        \A key \in Keys, leaf \in LeafInputs :
            OverflowingProofRejected(key, leaf, codec.result.nodes)

\* TreeSize = Sum<Prod<U8, U32>, U1>, whatever HASH_SIZE is
TreeSize_USIZE == 8 * 32 + 1

\* MSSMT::max_levels for a hash of hash_size bytes
MSSMT_max_levels(hash_size) == hash_size * 8

\* CompactMSSMT::max_levels for a hash of hash_size bytes
CompactMSSMT_max_levels(hash_size) == TreeSize_USIZE - 1

\* the number of nodes EmptyTree::build_tree pushes for that hash
build_tree_len(hash_size) == Len(build_tree(0)) + hash_size * 8

\* the hash widths the tests instantiate the engines with
HashWidths == {32, 64}

(* C33: for every supported hash width N, the regular engine's max_levels   *)
(* and the compact engine's max_levels both equal 8N, and the empty-tree    *)
(* table has 8N + 1 entries; the proofs of the engines have one sibling     *)
(* per level.                                                               *)
C33_DepthFollowsHashWidth ==
    /\ \A N \in HashWidths :
          /\ MSSMT_max_levels(N) = 8 * N
          /\ CompactMSSMT_max_levels(N) = 8 * N
          /\ build_tree_len(N) = 8 * N + 1
          /\ TreeSize_USIZE = 8 * N + 1
    /\ \A key \in Keys :
          /\ (rres # "Panic" /\ MSSMT_merkle_proof(rdb, key).ok)
                => Len(MSSMT_merkle_proof(rdb, key).nodes) = MSSMT_max_levels(HASH_SIZE)
          /\ (cres # "Panic" /\ CompactMSSMT_merkle_proof(cdb, key).ok)
                => Len(CompactMSSMT_merkle_proof(cdb, key).nodes) = 8 * HASH_SIZE

(* C34: the empty-tree table of a hash is built at most once in a process,  *)
(* however many times EmptyTree::empty_tree is called and however many      *)
(* stores are created; every later call returns the table that the first    *)
(* call built.                                                              *)
C34_TableMemoised == empty_tree_builds <= 1

\* every key that get reads in store before reads as the same leaf in after
SameReadings(before, after) ==
    \A k \in Keys :
        MSSMT_get(before, k).ok =>
            /\ MSSMT_get(after, k).ok
            /\ MSSMT_get(after, k).leaf = MSSMT_get(before, k).leaf

\* operation r of the regular engine leaves the root, the branch records and
\* the readings of the store as they were
LeavesStoreIntact(db, r) ==
    Outcome(r) # "Panic" =>
        /\ SameRoot(MSSMT_root(StoreAfter(db, r)), MSSMT_root(db))
        /\ BranchRecords(StoreAfter(db, r)) = BranchRecords(db)
        /\ SameReadings(db, StoreAfter(db, r))

\* key holds no leaf while another key is inhabited
AbsentAmongOthers(map, key) ==
    ~Inhabited(map[key]) /\ \E k \in Keys : Inhabited(map[k])

(* C35: on the regular engine, inserting at a key a leaf identical to the   *)
(* one stored there, or deleting a key that holds no leaf while other keys  *)
(* are inhabited, leaves the root and the set of stored branch records      *)
(* unchanged, and every key readable before the call is readable with the   *)
(* same leaf after it.                                                      *)
C35_NoChangeLeavesStoreIntact ==
    rres # "Panic" =>
        \A key \in Keys :
            /\ (Inhabited(rmap[key]) /\ MSSMT_get(rdb, key).ok
                  /\ MSSMT_get(rdb, key).leaf = rmap[key])
                  => LeavesStoreIntact(rdb, MSSMT_insert(rdb, key, rmap[key]))
            /\ AbsentAmongOthers(rmap, key)
                  => LeavesStoreIntact(rdb, MSSMT_delete(rdb, key))

RECURSIVE ReachableFrom(_, _, _)
\* the non-empty nodes, as <<level, hash>>, that the branch records of db
\* lead to from the node of hash h at that level
ReachableFrom(db, level, h) ==
    IF h = empty_tree[level].hash THEN {}
    ELSE {<<level, h>>}
         \cup (IF level < max_levels /\ h \in DOMAIN db.branches
               THEN ReachableFrom(db, level + 1, db.branches[h].left.hash)
                    \cup ReachableFrom(db, level + 1, db.branches[h].right.hash)
               ELSE {})

\* every non-empty node above the leaves that is reachable from root has a
\* record in one of tables, and every branch record is reachable from root
StoreClosed(db, root, tables) ==
    LET reached == ReachableFrom(db, 0, root.hash) IN
    /\ \A n \in reached : n[1] < max_levels => n[2] \in tables
    /\ \A h \in DOMAIN db.branches : \E n \in reached : n[2] = h

(* C36: after every successful insert or delete the store holds a record    *)
(* for every non-empty node reachable from the committed root (branches for *)
(* the regular engine, branches and compact leaves for the compact engine)  *)
(* and holds no branch record that is unreachable from the committed root.  *)
C36_StoreClosure ==
    /\ rres = "Ok" => StoreClosed(rdb, MSSMT_root(rdb), DOMAIN rdb.branches)
    /\ cres = "Ok" => StoreClosed(cdb, CompactMSSMT_root(cdb),
                                  DOMAIN cdb.branches \cup DOMAIN cdb.compact_leaves)

\* every key other than key reads in after the leaf it read in before
\* (regular engine)
OthersUntouched(before, after, key) ==
    \A other \in Keys \ {key} :
        MSSMT_get(before, other).ok =>
            /\ MSSMT_get(after, other).ok
            /\ MSSMT_get(after, other).leaf = MSSMT_get(before, other).leaf

\* every key other than key reads in after the leaf it read in before
\* (compact engine)
CompactOthersUntouched(before, after, key) ==
    \A other \in Keys \ {key} :
        CompactMSSMT_get(before, other).ok =>
            /\ CompactMSSMT_get(after, other).ok
            /\ CompactMSSMT_get(after, other).leaf = CompactMSSMT_get(before, other).leaf

(* C37: a successful insert(k, L) or delete(k) does not change the leaf     *)
(* returned for any key different from k, in either engine, also when       *)
(* different keys hold leaves of the same value and sum and so share store  *)
(* records.                                                                 *)
C37_OtherKeysUntouched ==
    \A key \in Keys, leaf \in LeafInputs \cup {EmptyLeaf_new} :
        /\ (rres # "Panic" /\ Succeeds(MSSMT_insert(rdb, key, leaf))) =>
               OthersUntouched(rdb, StoreAfter(rdb, MSSMT_insert(rdb, key, leaf)), key)
        /\ (cres # "Panic" /\ Succeeds(CompactMSSMT_insert(cdb, key, leaf))) =>
               CompactOthersUntouched(cdb, StoreAfter(cdb, CompactMSSMT_insert(cdb, key, leaf)), key)

\* insert result r went past its SumOverflow check
PassesSumCheck(r) == r.res # "SumOverflow"

\* no Branch::new of the operation with result r added two sums to more
\* than u64::MAX
NoSumWraps(r) == r.panic_at < 0

(* C38: whenever the SumOverflow check of insert passes, every Branch sum   *)
(* computed during that insert (walk-up in the regular engine; compact-leaf *)
(* construction, merge and re-branching in the compact engine) is at most   *)
(* u64::MAX, in every state reachable through the public operations.        *)
C38_AcceptedInsertNeverOverflows ==
    \A key \in Keys, leaf \in LeafInputs :
        /\ (rres # "Panic" /\ PassesSumCheck(MSSMT_insert(rdb, key, leaf))) =>
               NoSumWraps(MSSMT_insert(rdb, key, leaf))
        /\ (cres # "Panic" /\ PassesSumCheck(CompactMSSMT_insert(cdb, key, leaf))) =>
               NoSumWraps(CompactMSSMT_insert(cdb, key, leaf))

\* both engines accepted an operation, hold more than one unit of sum, and
\* accept a further insert
C38_Witness ==
    /\ rres = "Ok" /\ cres = "Ok"
    /\ MSSMT_root(rdb).sum >= 2 /\ CompactMSSMT_root(cdb).sum >= 2
    /\ \E key \in Keys, leaf \in LeafInputs :
           /\ Succeeds(MSSMT_insert(rdb, key, leaf))
           /\ Succeeds(CompactMSSMT_insert(cdb, key, leaf))

\* the store of the handle holds no root
RootNeverWritten(db) == db.root = <<>>

\* proof is Ok with the 8N siblings of a path through the empty tree
EmptyTreeProof(proof) ==
    /\ proof.ok
    /\ Len(proof.nodes) = 8 * HASH_SIZE
    /\ \A i \in 1..Len(proof.nodes) : proof.nodes[i].hash = EmptySiblings[i].hash

\* got is Ok(EmptyLeaf)
EmptyLeafRead(got) == got.ok /\ got.leaf = EmptyLeaf_new

(* C39: on a handle whose store holds no root, walk-down treats the root as *)
(* empty_tree[0]: merkle_proof(k) returns Ok with 8N empty-tree siblings    *)
(* and get(k) returns Ok(EmptyLeaf) for every key k, in the regular engine  *)
(* and in the compact engine alike.                                         *)
C39_UnwrittenRootReadsEmpty ==
    \A key \in Keys :
        /\ (rres # "Panic" /\ RootNeverWritten(rdb)) =>
               /\ EmptyTreeProof(MSSMT_merkle_proof(rdb, key))
               /\ EmptyLeafRead(MSSMT_get(rdb, key))
        /\ (cres # "Panic" /\ RootNeverWritten(cdb)) =>
               /\ EmptyTreeProof(CompactMSSMT_merkle_proof(cdb, key))
               /\ EmptyLeafRead(CompactMSSMT_get(cdb, key))
====
